---- MODULE Spec2Model ----
(***************************************************************************)
(* Beacon block header field verification: the chunk codec                 *)
(* (beacon/header.go), the Merkle tree engine (merkle package), the proof  *)
(* bundle (proof/verification.go) and the on-chain replay                  *)
(* (BeaconHeaderVerifier.sol).                                             *)
(*                                                                         *)
(* Byte strings.  A []byte / bytes32 value is a record                     *)
(*     [raw |-> <<b1, ..., bn>>, kids |-> <<>>]      n concrete bytes      *)
(*     [raw |-> <<>>, kids |-> <<l, r>>]             SHA-256(l ++ r)       *)
(* SHA-256 is a free constructor over its two 32-byte operands, so two     *)
(* digests are equal exactly when they were computed from the same         *)
(* operands in the same order (collision-free hash).  The model applies    *)
(* the hash to 32-byte operands only.                                      *)
(***************************************************************************)
EXTENDS Integers, Sequences, FiniteSets, TLC

VARIABLES
    input,      \* the chunk list handed to NewTree
    tree,       \* what NewTree returned: the *Tree and the error
    call,       \* the pending method call on the tree: arguments and result
    req,        \* a verification request (root, index, leaf, proof)
    goRet,      \* what Tree.VerifyProof returned for req: <<>> or <<bool>>
    solRet,     \* what verifySSZMerkleProof returned for req: <<>> or <<bool>>
    hdr,        \* the beacon.HeaderData received from the header source
    codec,      \* FromAPIResponse / SerializeForMerkleization on hdr: results
    bundle,     \* what GenerateHeaderProof returned for hdr
    chain,      \* what VerifyOnChain returned for the bundle
    node,       \* the beacon node: what it answers for each slot
    run,        \* Application.Run and the fetchHeader call it is in
    vf          \* Application.verifyFields: its arguments, loop and result

merkleVars == <<input, tree, call>>
verifyVars == <<req, goRet, solRet>>
headerVars == <<hdr, codec, bundle, chain>>
appVars == <<node, run, vf>>
vars == <<merkleVars, verifyVars, headerVars, appVars>>

(***************************************************************************)
(* Bounds of the model.                                                    *)
(***************************************************************************)
MaxChunks == 5
MaxProofLen == 9

(***************************************************************************)
(* Byte strings and SHA-256.                                               *)
(***************************************************************************)
BytesPerChunk == 32

Repeat(b, n) == [i \in 1..n |-> b]

Raw(s) == [raw |-> s, kids |-> <<>>]

ByteLen(b) == IF b.kids = <<>> THEN Len(b.raw) ELSE BytesPerChunk

\* h := sha256.New(); h.Write(left); h.Write(right); h.Sum(nil)
\* faulty variant: a hash that ignores the second half of its input
Sha256LeftOnly(left, right) == [raw |-> <<>>, kids |-> <<left, left>>]

Sha256(left, right) == [raw |-> <<>>, kids |-> <<left, right>>]

\* make([]byte, 32)
ZeroChunk == Raw(Repeat(0, BytesPerChunk))

(***************************************************************************)
(* package merkle                                                          *)
(***************************************************************************)
RECURSIVE BitsLen(_)
\* math/bits.Len: the number of bits needed to represent x
BitsLen(x) == IF x = 0 THEN 0 ELSE 1 + BitsLen(x \div 2)

\* faulty variant: the bit length of n instead of n - 1
nextPowerOfTwoOfN(n) == IF n <= 0 THEN 1 ELSE 2 ^ BitsLen(n)

nextPowerOfTwo(n) == IF n <= 0 THEN 1 ELSE 2 ^ BitsLen(n - 1)

\* the padding loop shared by merkleize and ComputeProof
PadChunks(chunks) ==
    LET nextPow2 == nextPowerOfTwo(Len(chunks))
    IN  IF Len(chunks) < nextPow2
        THEN chunks \o [i \in 1..(nextPow2 - Len(chunks)) |-> ZeroChunk]
        ELSE chunks

\* the inner "for i := 0; i < len(layer); i += 2" loop
HashLayer(layer) ==
    [k \in 1..((Len(layer) + 1) \div 2) |->
        LET i == 2 * (k - 1)
            left == layer[i + 1]
            right == IF i + 1 < Len(layer) THEN layer[i + 2] ELSE ZeroChunk
        IN  Sha256(left, right)]

RECURSIVE MerkleizeLoop(_)
MerkleizeLoop(layer) ==
    IF Len(layer) > 1 THEN MerkleizeLoop(HashLayer(layer)) ELSE layer[1]

\* faulty variant: the chunk list is hashed without padding it to a power of two
merkleizeUnpadded(chunks) ==
    IF Len(chunks) = 0 THEN ZeroChunk ELSE MerkleizeLoop(chunks)

merkleize(chunks) ==
    IF Len(chunks) = 0 THEN ZeroChunk ELSE MerkleizeLoop(PadChunks(chunks))

\* faulty variant: the chunk sizes are not checked
NewTreeUnchecked(chunks) ==
    [err |-> FALSE, tree |-> <<[chunks |-> chunks, root |-> merkleize(chunks)]>>]

\* NewTree returns (tree, err); tree is <<>> for nil, <<t>> otherwise
NewTree(chunks) ==
    IF \E i \in 1..Len(chunks) : ByteLen(chunks[i]) # 32
    THEN [err |-> TRUE, tree |-> <<>>]
    ELSE [err |-> FALSE,
          tree |-> <<[chunks |-> chunks, root |-> merkleize(chunks)]>>]

\* treeIndex ^ 1
Xor1(i) == IF i % 2 = 0 THEN i + 1 ELSE i - 1

RECURSIVE ProofLoopSameIndex(_, _, _)
\* faulty variant: the index is not halved when moving to the parent layer
ProofLoopSameIndex(layer, treeIndex, proof) ==
    IF Len(layer) > 1
    THEN LET siblingIndex == Xor1(treeIndex)
             sibling == IF siblingIndex < Len(layer)
                        THEN layer[siblingIndex + 1]
                        ELSE ZeroChunk
         IN  ProofLoopSameIndex(HashLayer(layer), treeIndex, Append(proof, sibling))
    ELSE proof

RECURSIVE ProofLoop(_, _, _)
ProofLoop(layer, treeIndex, proof) ==
    IF Len(layer) > 1
    THEN LET siblingIndex == Xor1(treeIndex)
             sibling == IF siblingIndex < Len(layer)
                        THEN layer[siblingIndex + 1]
                        ELSE ZeroChunk
         IN  ProofLoop(HashLayer(layer), treeIndex \div 2, Append(proof, sibling))
    ELSE proof

\* faulty variant: the index is checked against the padded size
ComputeProofPaddedRange(t, index) ==
    IF index < 0 \/ index >= nextPowerOfTwo(Len(t.chunks))
    THEN [err |-> TRUE, proof |-> <<>>]
    ELSE [err |-> FALSE, proof |-> ProofLoop(PadChunks(t.chunks), index, <<>>)]

\* ComputeProof returns (proof, err); a nil proof is <<>>
ComputeProof(t, index) ==
    IF index < 0 \/ index >= Len(t.chunks)
    THEN [err |-> TRUE, proof |-> <<>>]
    ELSE [err |-> FALSE, proof |-> ProofLoop(PadChunks(t.chunks), index, <<>>)]

\* (index >> uint(i)) & 1 on a Go int: an arithmetic shift, then the low bit
BitAt(index, i) == (index \div (2 ^ i)) % 2

RECURSIVE VerifyLoopSwapped(_, _, _, _)
\* faulty variant: the two concatenation orders are exchanged
VerifyLoopSwapped(index, current, proof, i) ==
    IF i < Len(proof)
    THEN LET sibling == proof[i + 1]
         IN  VerifyLoopSwapped(index,
                               IF BitAt(index, i) = 1
                               THEN Sha256(current, sibling)
                               ELSE Sha256(sibling, current),
                               proof, i + 1)
    ELSE current

RECURSIVE VerifyLoop(_, _, _, _)
VerifyLoop(index, current, proof, i) ==
    IF i < Len(proof)
    THEN LET sibling == proof[i + 1]
         IN  VerifyLoop(index,
                        IF BitAt(index, i) = 1
                        THEN Sha256(sibling, current)
                        ELSE Sha256(current, sibling),
                        proof, i + 1)
    ELSE current

VerifyProof(t, index, value, proof) ==
    VerifyLoop(index, value, proof, 0) = t.root

(***************************************************************************)
(* contract BeaconHeaderVerifier                                           *)
(***************************************************************************)
\* sha256(abi.encodePacked(left, right))
hashPair(left, right) == Sha256(left, right)

RECURSIVE SSZLoopParityOnly(_, _, _, _)
\* faulty variant: the index is not halved, every level uses the parity of the index
SSZLoopParityOnly(index, computedHash, proof, i) ==
    IF i < Len(proof)
    THEN LET proofElement == proof[i + 1]
         IN  SSZLoopParityOnly(index,
                               IF index % 2 = 0
                               THEN hashPair(computedHash, proofElement)
                               ELSE hashPair(proofElement, computedHash),
                               proof, i + 1)
    ELSE computedHash

RECURSIVE SSZLoop(_, _, _, _)
\* the for loop of verifySSZMerkleProof; index is a uint256
SSZLoop(index, computedHash, proof, i) ==
    IF i < Len(proof)
    THEN LET proofElement == proof[i + 1]
         IN  SSZLoop(index \div 2,
                     IF index % 2 = 0
                     THEN hashPair(computedHash, proofElement)
                     ELSE hashPair(proofElement, computedHash),
                     proof, i + 1)
    ELSE computedHash

verifySSZMerkleProof(root, index, leaf, proof) ==
    SSZLoop(index, leaf, proof, 0) = root

(***************************************************************************)
(* Strings.  A Go string is [chars |-> <<c1, ..., cn>>, sym |-> <<>>], a   *)
(* sequence of one-character strings; the 64 hex digits of a digest d,     *)
(* which have no concrete value, are [chars |-> prefix, sym |-> <<d>>],    *)
(* the prefix being "" or "0x".                                            *)
(***************************************************************************)
Str(chars) == [chars |-> chars, sym |-> <<>>]

EmptyStr == Str(<<>>)

StrLen(s) == Len(s.chars) + (IF s.sym = <<>> THEN 0 ELSE 64)

\* faulty variant: the prefix is left out
WithoutPrefix(s) == s

\* "0x" + s
With0x(s) == [chars |-> <<"0", "x">> \o s.chars, sym |-> s.sym]

DecimalTable == <<"0", "1", "2", "3", "4", "5", "6", "7", "8", "9">>
HexTable == DecimalTable \o <<"a", "b", "c", "d", "e", "f">>
UpperHexTable == DecimalTable \o <<"A", "B", "C", "D", "E", "F">>

IsDecimalChar(c) == \E d \in 1..10 : DecimalTable[d] = c
DecimalVal(c) == (CHOOSE d \in 1..10 : DecimalTable[d] = c) - 1

\* encoding/hex reverseHexTable: a value above 0x0f marks an invalid byte
IsHexChar(c) == \E d \in 1..16 : HexTable[d] = c \/ UpperHexTable[d] = c
HexVal(c) == (CHOOSE d \in 1..16 : HexTable[d] = c \/ UpperHexTable[d] = c) - 1

\* hex.EncodeToString
EncodeToString(b) ==
    IF b.kids # <<>> THEN [chars |-> <<>>, sym |-> <<b>>]
    ELSE Str([k \in 1..(2 * Len(b.raw)) |->
                 LET v == b.raw[(k + 1) \div 2]
                 IN  HexTable[(IF k % 2 = 1 THEN v \div 16 ELSE v % 16) + 1]])

RECURSIVE HexDecodeLoop(_, _, _)
\* hex.Decode: j is the position of the second character of the pair
HexDecodeLoop(src, j, dst) ==
    IF j <= Len(src)
    THEN LET p == src[j - 1]
             q == src[j]
         IN  IF ~IsHexChar(p) \/ ~IsHexChar(q)
             THEN [bytes |-> Raw(dst), err |-> TRUE]
             ELSE HexDecodeLoop(src, j + 2, Append(dst, 16 * HexVal(p) + HexVal(q)))
    ELSE IF Len(src) % 2 = 1
         THEN [bytes |-> Raw(dst), err |-> TRUE]
         ELSE [bytes |-> Raw(dst), err |-> FALSE]

\* hex.DecodeString returns the bytes decoded before the error, and the error
DecodeString(s) ==
    IF s.sym # <<>> /\ s.chars = <<>>
    THEN [bytes |-> s.sym[1], err |-> FALSE]
    ELSE HexDecodeLoop(s.chars, 2, <<>>)

trimHexPrefix(hexStr) ==
    IF StrLen(hexStr) >= 2 /\ Len(hexStr.chars) >= 2
       /\ hexStr.chars[1] = "0" /\ hexStr.chars[2] = "x"
    THEN [chars |-> SubSeq(hexStr.chars, 3, Len(hexStr.chars)), sym |-> hexStr.sym]
    ELSE hexStr

(***************************************************************************)
(* uint64.  A uint64 is its 8 bytes, least significant first, so that      *)
(* values up to 2^64 - 1 and the overflow of strconv.ParseUint are exact.  *)
(***************************************************************************)
U64Zero == Repeat(0, 8)
U64Max == Repeat(255, 8)

RECURSIVE MulAddLoop(_, _, _, _, _)
\* n * m + carry over the 8 bytes of n; carry is what does not fit
MulAddLoop(n, m, carry, k, out) ==
    IF k > 8 THEN [val |-> out, carry |-> carry]
    ELSE LET x == n[k] * m + carry
         IN  MulAddLoop(n, m, x \div 256, k + 1, Append(out, x % 256))

RECURSIVE ParseUintLoop(_, _, _)
\* the loop of strconv.ParseUint(s, 10, 64) over the characters of s
ParseUintLoop(c, k, n) ==
    IF k > Len(c) THEN [val |-> n, err |-> FALSE]
    ELSE IF ~IsDecimalChar(c[k]) THEN [val |-> U64Zero, err |-> TRUE]
    ELSE LET wide == MulAddLoop(n, 10, DecimalVal(c[k]), 1, <<>>)
         IN  IF wide.carry # 0 THEN [val |-> U64Max, err |-> TRUE]
             ELSE ParseUintLoop(c, k + 1, wide.val)

\* strconv.ParseUint(s, 10, 64): (0, syntax error), (maxUint64, range error)
\* or (n, nil)
ParseUint(s) ==
    IF s.chars = <<>> THEN [val |-> U64Zero, err |-> TRUE]
    ELSE ParseUintLoop(s.chars, 1, U64Zero)

\* byte(val >> (i * 8))
ByteOfShift(val, i) == (val \o Repeat(0, 8))[i + 1]

\* uint64(i) for an int 0 <= i < 2^31
Uint64OfInt(i) == [k \in 1..8 |-> IF k <= 4 THEN (i \div (256 ^ (k - 1))) % 256 ELSE 0]

RECURSIVE LessLoop(_, _, _)
LessLoop(a, b, k) ==
    IF k = 0 THEN FALSE
    ELSE IF a[k] # b[k] THEN a[k] < b[k]
    ELSE LessLoop(a, b, k - 1)

\* a < b on uint64
LessU64(a, b) == LessLoop(a, b, 8)

RECURSIVE AddLoop(_, _, _, _)
\* a + b on uint64, wrapping around at 2^64
AddLoop(a, b, carry, out) ==
    IF Len(out) = 8 THEN out
    ELSE LET x == a[Len(out) + 1] + b[Len(out) + 1] + carry
         IN  AddLoop(a, b, x \div 256, Append(out, x % 256))

AddU64(a, b) == AddLoop(a, b, 0, <<>>)

RECURSIVE SubLoop(_, _, _, _)
\* a - b on uint64, wrapping around below 0
SubLoop(a, b, borrow, out) ==
    IF Len(out) = 8 THEN out
    ELSE LET x == a[Len(out) + 1] - b[Len(out) + 1] - borrow
         IN  SubLoop(a, b, IF x < 0 THEN 1 ELSE 0, Append(out, (x + 256) % 256))

SubU64(a, b) == SubLoop(a, b, 0, <<>>)

RECURSIVE DivLoop(_, _, _, _)
\* n / 10 and n % 10 on uint64, from the most significant byte down
DivLoop(n, k, rem, out) ==
    IF k = 0 THEN [quo |-> out, rem |-> rem]
    ELSE LET x == rem * 256 + n[k]
         IN  DivLoop(n, k - 1, x % 10, <<x \div 10>> \o out)

RECURSIVE FormatLoop(_, _)
FormatLoop(n, chars) ==
    IF n = U64Zero THEN chars
    ELSE LET d == DivLoop(n, 8, 0, <<>>)
         IN  FormatLoop(d.quo, <<DecimalTable[d.rem + 1]>> \o chars)

\* strconv.FormatUint(n, 10)
FormatUint(n) == IF n = U64Zero THEN Str(<<"0">>) ELSE Str(FormatLoop(n, <<>>))

(***************************************************************************)
(* package beacon: the chunk codec                                         *)
(***************************************************************************)
\* var header BlockHeader
ZeroBlockHeader ==
    [Slot |-> U64Zero, ProposerIndex |-> U64Zero,
     ParentRoot |-> Raw(<<>>), StateRoot |-> Raw(<<>>), BodyRoot |-> Raw(<<>>)]

\* faulty variant: an empty root string leaves the root empty
DecodeRootEmptyNil(s) ==
    IF s # EmptyStr THEN DecodeString(trimHexPrefix(s))
    ELSE [bytes |-> Raw(<<>>), err |-> FALSE]

\* one "if data.X != "" { b.X, err = hex.DecodeString(...) } else { zero }"
DecodeRoot(s) ==
    IF s # EmptyStr THEN DecodeString(trimHexPrefix(s))
    ELSE [bytes |-> ZeroChunk, err |-> FALSE]

\* one "if data.X != "" { b.X, err = strconv.ParseUint(...) }"
DecodeNumber(old, s) ==
    IF s # EmptyStr THEN ParseUint(s) ELSE [val |-> old, err |-> FALSE]

\* FromAPIResponse returns the error ("" for nil) and leaves b as written up
\* to the failing field
FromAPIResponse(b, data) ==
    LET slot == DecodeNumber(b.Slot, data.Slot)
        b1 == [b EXCEPT !.Slot = slot.val]
        proposer == DecodeNumber(b1.ProposerIndex, data.ProposerIndex)
        b2 == [b1 EXCEPT !.ProposerIndex = proposer.val]
        parent == DecodeRoot(data.ParentRoot)
        b3 == [b2 EXCEPT !.ParentRoot = parent.bytes]
        state == DecodeRoot(data.StateRoot)
        b4 == [b3 EXCEPT !.StateRoot = state.bytes]
        body == DecodeRoot(data.BodyRoot)
        b5 == [b4 EXCEPT !.BodyRoot = body.bytes]
    IN  IF slot.err THEN [err |-> "parsing slot", b |-> b1]
        ELSE IF proposer.err THEN [err |-> "parsing proposer_index", b |-> b2]
        ELSE IF parent.err THEN [err |-> "decoding parent_root", b |-> b3]
        ELSE IF state.err THEN [err |-> "decoding state_root", b |-> b4]
        ELSE IF body.err THEN [err |-> "decoding body_root", b |-> b5]
        ELSE [err |-> "", b |-> b5]

\* faulty variant: the most significant byte is written first
writeUint64BigEndian(buf, val) ==
    Raw([k \in 1..Len(buf.raw) |->
            IF k <= 8 THEN ByteOfShift(val, 8 - k) ELSE buf.raw[k]])

\* buf is 32 zero bytes; buf[i] = byte(val >> (i * 8)) for i < 8
writeUint64LittleEndian(buf, val) ==
    Raw([k \in 1..Len(buf.raw) |->
            IF k <= 8 THEN ByteOfShift(val, k - 1) ELSE buf.raw[k]])

\* faulty variant: proposer_index is serialized before slot
SerializeProposerFirst(b) ==
    <<writeUint64LittleEndian(ZeroChunk, b.ProposerIndex),
      writeUint64LittleEndian(ZeroChunk, b.Slot),
      b.ParentRoot, b.StateRoot, b.BodyRoot>>

SerializeForMerkleization(b) ==
    <<writeUint64LittleEndian(ZeroChunk, b.Slot),
      writeUint64LittleEndian(ZeroChunk, b.ProposerIndex),
      b.ParentRoot, b.StateRoot, b.BodyRoot>>

(***************************************************************************)
(* package proof: the proof bundle and the remote verification adapter     *)
(***************************************************************************)
\* faulty variant: parent_root and state_root exchanged
FieldNamesSwapped ==
    [slot |-> 0, proposer_index |-> 1, parent_root |-> 3, state_root |-> 2,
     body_root |-> 4]

\* faulty variant: a sixth name is known
FieldNamesWithInvalid ==
    [slot |-> 0, proposer_index |-> 1, parent_root |-> 2, state_root |-> 3,
     body_root |-> 4, invalid_field |-> 0]

FieldNames ==
    [slot |-> 0, proposer_index |-> 1, parent_root |-> 2, state_root |-> 3,
     body_root |-> 4]

\* Data{}
ZeroData ==
    [BeaconTimestamp |-> 0, BeaconBlockRoot |-> EmptyStr, FieldIndex |-> 0,
     FieldValue |-> EmptyStr, MerkleProof |-> <<>>]

GenerateHeaderProof(headerData, fieldName, nextSlotTimestamp) ==
    LET parsed == FromAPIResponse(ZeroBlockHeader, headerData)
        header == parsed.b
        serializedFields == SerializeForMerkleization(header)
        built == NewTree(serializedFields)
        fieldIndex == FieldNames[fieldName]
        computed == ComputeProof(built.tree[1], fieldIndex)
        fieldValueBytes ==
            IF fieldName = "slot" \/ fieldName = "proposer_index"
            THEN serializedFields[fieldIndex + 1]
            ELSE IF fieldName = "parent_root" THEN header.ParentRoot
            ELSE IF fieldName = "state_root" THEN header.StateRoot
            ELSE header.BodyRoot
    IN  IF parsed.err # "" THEN [err |-> "error processing header data", data |-> ZeroData]
        ELSE IF fieldName \notin DOMAIN FieldNames
             THEN [err |-> "unknown field name", data |-> ZeroData]
        ELSE IF built.err THEN [err |-> "error creating Merkle tree", data |-> ZeroData]
        ELSE IF computed.err
             THEN [err |-> "error computing Merkle proof", data |-> ZeroData]
        ELSE [err |-> "",
              data |-> [BeaconTimestamp |-> nextSlotTimestamp,
                        BeaconBlockRoot |-> With0x(EncodeToString(built.tree[1].root)),
                        FieldIndex |-> fieldIndex,
                        FieldValue |-> With0x(EncodeToString(fieldValueBytes)),
                        MerkleProof |-> [k \in 1..Len(computed.proof) |->
                                            With0x(EncodeToString(computed.proof[k]))]]]

\* var x [32]byte; copy(x[:], b): the first 32 bytes of b, zero-filled
Copy32(b) ==
    IF b.kids # <<>> THEN b
    ELSE Raw([k \in 1..32 |-> IF k <= Len(b.raw) THEN b.raw[k] ELSE 0])

\* BeaconHeaderVerifier.getBeaconBlockRoot: the staticcall to the beacon
\* roots contract answered with reply = [success, data]
getBeaconBlockRoot(reply) ==
    IF ~reply.success \/ ByteLen(reply.data) # 32
    THEN [reverted |-> TRUE, root |-> ZeroChunk]
    ELSE [reverted |-> FALSE, root |-> reply.data]

\* uint8 fieldIndex: the largest index that reaches the contract's replay
MaxUint8 == 255

SLOT_INDEX == 0
PROPOSER_INDEX == 1
PARENT_ROOT_INDEX == 2
STATE_ROOT_INDEX == 3
BODY_ROOT_INDEX == 4

\* BeaconHeaderVerifier.verifyHeaderField; the timestamp selects the reply
\* asked: the staticcall to the beacon roots contract was made
verifyHeaderField(reply, fieldIndex, fieldValue, merkleProof) ==
    IF ~(fieldIndex <= BODY_ROOT_INDEX)
    THEN [reverted |-> TRUE, asked |-> FALSE, ret |-> FALSE]
    ELSE LET r == getBeaconBlockRoot(reply)
         IN  IF r.reverted THEN [reverted |-> TRUE, asked |-> TRUE, ret |-> FALSE]
             ELSE [reverted |-> FALSE, asked |-> TRUE,
                   ret |-> verifySSZMerkleProof(r.root, fieldIndex, fieldValue, merkleProof)]

\* bytes32(uint256(v)) for a uint64 v: the number as 32 bytes, the most
\* significant byte first
Bytes32OfUint64(v) == Raw(Repeat(0, 24) \o [k \in 1..8 |-> v[9 - k]])

\* verifier.verifySlot(beaconTimestamp, slot, merkleProof)
verifySlot(reply, slot, merkleProof) ==
    verifyHeaderField(reply, SLOT_INDEX, Bytes32OfUint64(slot), merkleProof)

\* verifier.verifyProposerIndex(beaconTimestamp, proposerIndex, merkleProof)
verifyProposerIndex(reply, proposerIndex, merkleProof) ==
    verifyHeaderField(reply, PROPOSER_INDEX, Bytes32OfUint64(proposerIndex),
                      merkleProof)

\* VerifyOnChain returns (result, err) or panics; reply is what the beacon
\* roots contract answers for proofData.BeaconTimestamp
VerifyOnChain(reply, proofData) ==
    LET fieldIndex == proofData.FieldIndex % 256
        decodedValue == DecodeString(trimHexPrefix(proofData.FieldValue))
        fieldValue == Copy32(decodedValue.bytes)
        decodedProof == [k \in 1..Len(proofData.MerkleProof) |->
                            DecodeString(trimHexPrefix(proofData.MerkleProof[k]))]
        merkleProofBytes == [k \in 1..Len(decodedProof) |-> Copy32(decodedProof[k].bytes)]
        called == verifyHeaderField(reply, fieldIndex, fieldValue, merkleProofBytes)
        failed == [panic |-> FALSE, err |-> TRUE, called |-> FALSE, asked |-> FALSE,
                   ret |-> FALSE]
    IN  IF decodedValue.err THEN failed
        ELSE IF \E k \in 1..Len(decodedProof) : decodedProof[k].err THEN failed
        ELSE IF StrLen(proofData.FieldValue) < 10
             THEN [panic |-> TRUE, err |-> FALSE, called |-> FALSE, asked |-> FALSE,
                   ret |-> FALSE]
        ELSE IF called.reverted
             THEN [panic |-> FALSE, err |-> TRUE, called |-> TRUE,
                   asked |-> called.asked, ret |-> FALSE]
        ELSE [panic |-> FALSE, err |-> FALSE, called |-> TRUE,
              asked |-> called.asked, ret |-> called.ret]

(***************************************************************************)
(* Inputs of the Merkle engine.                                            *)
(***************************************************************************)
\* chunk := make([]byte, 32); chunk[0] = byte(i): a chunk unique to position i
Leaf(i) == Raw(<<i>> \o Repeat(0, 31))
\* bytes.Repeat([]byte{2}, 16): a chunk of the wrong size
ShortChunk == Raw(Repeat(2, 16))
\* bytes.Repeat([]byte{99}, 32): a value that is no chunk of any tree
ForeignChunk == Raw(Repeat(99, 32))

ChunkChoices(i) == {ZeroChunk, Leaf(i), ShortChunk}

RECURSIVE ListsOfLen(_)
ListsOfLen(n) ==
    IF n = 0 THEN {<<>>}
    ELSE {Append(l, c) : l \in ListsOfLen(n - 1), c \in ChunkChoices(n)}

ChunkLists == UNION {ListsOfLen(n) : n \in 0..MaxChunks}

Indices == (-1)..(nextPowerOfTwo(MaxChunks) + 1)

NoRequest == [root |-> ZeroChunk, index |-> 0, leaf |-> ZeroChunk, proof |-> <<>>]

NoCall == [op |-> "none", index |-> 0, value |-> ZeroChunk, proof |-> <<>>,
           err |-> FALSE, ret |-> FALSE]

\* the proofs the tree hands out
GenuineProofs(t) == {ComputeProof(t, j).proof : j \in 0..(Len(t.chunks) - 1)}

\* a proof with its first elements dropped, the empty proof included
Suffixes(proof) == {SubSeq(proof, k, Len(proof)) : k \in 1..(Len(proof) + 1)}

\* the nodes of the tree that occur as siblings in its proofs
ProofNodes(t) == UNION {{p[k] : k \in 1..Len(p)} : p \in GenuineProofs(t)}

\* a proof with one element replaced by a value foreign to the tree
Tampered(proof) == {[proof EXCEPT ![k] = ForeignChunk] : k \in 1..Len(proof)}

\* the proofs a caller holds: those the tree hands out, whole, cut short or
\* with one element replaced, and the empty proof
ProofInputs(t) ==
    {<<>>} \cup UNION {Suffixes(p) \cup Tampered(p) : p \in GenuineProofs(t)}

\* the values a caller asks about: the tree's chunks, nodes and root, and a
\* foreign value
ValueInputs(t) ==
    {ForeignChunk, t.root} \cup {t.chunks[j] : j \in 1..Len(t.chunks)}
        \cup ProofNodes(t)

VerifyIdle == req = NoRequest /\ goRet = <<>> /\ solRet = <<>>

NoHeader ==
    [Slot |-> EmptyStr, ProposerIndex |-> EmptyStr, ParentRoot |-> EmptyStr,
     StateRoot |-> EmptyStr, BodyRoot |-> EmptyStr]

NoCodec == [state |-> "none", err |-> "", header |-> ZeroBlockHeader, chunks |-> <<>>]

NoBundle == [state |-> "none", field |-> "", ts |-> 0, err |-> "", data |-> ZeroData]

NoReply == [success |-> FALSE, data |-> Raw(<<>>)]

NoChain == [state |-> "none", reply |-> NoReply, panic |-> FALSE, err |-> FALSE,
            called |-> FALSE, asked |-> FALSE, ret |-> FALSE]

HeaderIdle == hdr = NoHeader /\ codec = NoCodec /\ bundle = NoBundle /\ chain = NoChain

\* no beacon node, no run of the application, no call of verifyFields
NoNode == [slots |-> <<>>, how |-> "none"]
NoRun == [pc |-> "none"]
NoVerifyFields == [pc |-> "none"]

AppIdle == node = NoNode /\ run = NoRun /\ vf = NoVerifyFields

(***************************************************************************)
(* The Merkle engine as a state machine: a chunk list is given, NewTree    *)
(* builds the tree, and the caller invokes the tree's methods one after    *)
(* another, in any order; call holds the pending call's arguments and      *)
(* result until the caller has consumed them.                              *)
(***************************************************************************)
Init ==
    /\ input \in ChunkLists
    /\ tree = [state |-> "unbuilt", err |-> FALSE, t |-> <<>>]
    /\ call = NoCall
    /\ VerifyIdle
    /\ HeaderIdle
    /\ AppIdle

CallNewTree ==
    /\ tree.state = "unbuilt"
    /\ LET r == NewTree(input)
       IN  tree' = [state |-> "returned", err |-> r.err, t |-> r.tree]
    /\ UNCHANGED <<input, call, verifyVars, headerVars, appVars>>

\* t.Root(): the stored root
Root(t) == t.root

\* t.Chunks(): the stored chunks
Chunks(t) == t.chunks

\* faulty variant: the chunks are padded in the tree itself
TreePaddedInPlace(t, index) ==
    IF index < 0 \/ index >= Len(t.chunks) THEN t
    ELSE [t EXCEPT !.chunks = PadChunks(t.chunks)]

\* the tree ComputeProof(index) leaves behind: the padding and the layers
\* are built on a working copy of the chunks
TreeAfterComputeProof(t, index) == t

CallRoot ==
    /\ tree.state = "returned" /\ tree.t # <<>> /\ call = NoCall
    /\ call' = [op |-> "Root", index |-> 0, value |-> Root(tree.t[1]),
                proof |-> <<>>, err |-> FALSE, ret |-> FALSE]
    /\ UNCHANGED <<input, tree, verifyVars, headerVars, appVars>>

CallChunks ==
    /\ tree.state = "returned" /\ tree.t # <<>> /\ call = NoCall
    /\ call' = [op |-> "Chunks", index |-> 0, value |-> ZeroChunk,
                proof |-> Chunks(tree.t[1]), err |-> FALSE, ret |-> FALSE]
    /\ UNCHANGED <<input, tree, verifyVars, headerVars, appVars>>

CallComputeProof ==
    /\ tree.state = "returned" /\ tree.t # <<>> /\ call = NoCall
    /\ \E index \in Indices :
          LET r == ComputeProof(tree.t[1], index)
          IN  /\ call' = [op |-> "ComputeProof", index |-> index,
                          value |-> ZeroChunk, proof |-> r.proof, err |-> r.err,
                          ret |-> FALSE]
              /\ tree' = [tree EXCEPT
                             !.t = <<TreeAfterComputeProof(tree.t[1], index)>>]
    /\ UNCHANGED <<input, verifyVars, headerVars, appVars>>

CallVerifyProof ==
    /\ tree.state = "returned" /\ tree.t # <<>> /\ call = NoCall
    /\ \E index \in Indices, value \in ValueInputs(tree.t[1]),
          proof \in ProofInputs(tree.t[1]) :
          call' = [op |-> "VerifyProof", index |-> index, value |-> value,
                   proof |-> proof, err |-> FALSE,
                   ret |-> VerifyProof(tree.t[1], index, value, proof)]
    /\ UNCHANGED <<input, tree, verifyVars, headerVars, appVars>>

\* the caller has used the result; the tree is ready for the next call
Return ==
    /\ call # NoCall
    /\ call' = NoCall
    /\ UNCHANGED <<input, tree, verifyVars, headerVars, appVars>>

Next ==
    \/ CallNewTree
    \/ CallRoot
    \/ CallChunks
    \/ CallComputeProof
    \/ CallVerifyProof
    \/ Return

Spec == Init /\ [][Next]_vars

(***************************************************************************)
(* The two verifiers side by side.  A request (claimed root, index, leaf,  *)
(* proof) is given; the off-chain side builds the tree whose root is the   *)
(* claimed root and calls Tree.VerifyProof, the contract runs              *)
(* verifySSZMerkleProof on the same request.                               *)
(***************************************************************************)
RECURSIVE SeqsUpTo(_, _)
SeqsUpTo(S, n) ==
    IF n = 0 THEN {<<>>}
    ELSE LET shorter == SeqsUpTo(S, n - 1)
         IN  shorter \cup {Append(p, c) : p \in {q \in shorter : Len(q) = n - 1}, c \in S}

\* every proof of up to 2 elements over two values, and one proof of every
\* length up to MaxProofLen with pairwise distinct elements
RequestProofs ==
    SeqsUpTo({ZeroChunk, Leaf(2)}, 2)
        \cup {[i \in 1..n |-> Leaf(i + 1)] : n \in 3..MaxProofLen}

RequestLeaves == {ZeroChunk, Leaf(1)}

\* the positions whose replay supplies the claimed roots that can match
RootPositions == {0, 1, 2, MaxUint8}

\* a chunk list whose tree has the given root: <<r>> for a raw chunk r,
\* <<l, r>> for the digest of l ++ r
ChunksWithRoot(root) == IF root.kids = <<>> THEN <<root>> ELSE root.kids

\* the claimed roots of a request: a root no replay produces, and the
\* digests the replay produces at RootPositions
RequestRoots(leaf, proof) ==
    {ForeignChunk} \cup {SSZLoop(j, leaf, proof, 0) : j \in RootPositions}

InitVerify ==
    /\ \E index \in 0..MaxUint8, leaf \in RequestLeaves, proof \in RequestProofs :
          \E root \in RequestRoots(leaf, proof) :
             req = [root |-> root, index |-> index, leaf |-> leaf, proof |-> proof]
    /\ input = ChunksWithRoot(req.root)
    /\ tree = [state |-> "unbuilt", err |-> FALSE, t |-> <<>>]
    /\ call = NoCall
    /\ goRet = <<>>
    /\ solRet = <<>>
    /\ HeaderIdle
    /\ AppIdle

\* the off-chain verifier: t.VerifyProof(index, value, proof)
GoVerify ==
    /\ req # NoRequest /\ goRet = <<>>
    /\ tree.state = "returned" /\ tree.t # <<>>
    /\ goRet' = <<VerifyProof(tree.t[1], req.index, req.leaf, req.proof)>>
    /\ UNCHANGED <<merkleVars, req, solRet, headerVars, appVars>>

\* the on-chain verifier: verifySSZMerkleProof(root, index, leaf, proof)
SolVerify ==
    /\ req # NoRequest /\ solRet = <<>>
    /\ solRet' = <<verifySSZMerkleProof(req.root, req.index, req.leaf, req.proof)>>
    /\ UNCHANGED <<merkleVars, req, goRet, headerVars, appVars>>

NextVerify == CallNewTree \/ GoVerify \/ SolVerify

SpecVerify == InitVerify /\ [][NextVerify]_vars

(***************************************************************************)
(* The header pipeline.  A HeaderData arrives from the header source; the  *)
(* caller either runs the codec on it (FromAPIResponse, then               *)
(* SerializeForMerkleization) or asks for a proof bundle                   *)
(* (GenerateHeaderProof) and submits it (VerifyOnChain).                   *)
(***************************************************************************)
\* "0x" followed by the byte b written 32 times in hex
RootString(b) == With0x(EncodeToString(Raw(Repeat(b, 32))))

\* "AB" 32 times: upper case, no prefix
UpperRootString == Str([k \in 1..64 |-> IF k % 2 = 1 THEN "A" ELSE "B"])

\* "0x1234": two bytes
ShortRootString == Str(<<"0", "x", "1", "2", "3", "4">>)

\* "0xNOT-HEX"
NotHexString == Str(<<"0", "x", "N", "O", "T", "-", "H", "E", "X">>)

\* 33 bytes
LongRootString == With0x(EncodeToString(Raw(Repeat(17, 33))))

SlotStrings ==
    {EmptyStr,
     Str(<<"0">>),
     Str(<<"1", "2", "3", "4", "5", "6">>),
     Str(<<"1", "8", "4", "4", "6", "7", "4", "4", "0", "7",
           "3", "7", "0", "9", "5", "5", "1", "6", "1", "5">>),
     Str(<<"1", "8", "4", "4", "6", "7", "4", "4", "0", "7",
           "3", "7", "0", "9", "5", "5", "1", "6", "1", "6">>),
     Str(<<"1", "2", "a">>),
     Str(<<"-", "1">>)}

ProposerStrings == {EmptyStr, Str(<<"4", "2">>), Str(<<"x">>)}

ParentRootStrings ==
    {EmptyStr, RootString(1), UpperRootString, ShortRootString, NotHexString,
     LongRootString}

StateRootStrings == {EmptyStr, RootString(2), ShortRootString}

BodyRootStrings == {EmptyStr, RootString(3), NotHexString}

FieldNameInputs ==
    {"slot", "proposer_index", "parent_root", "state_root", "body_root",
     "invalid_field", "Slot", ""}

Timestamps == {12, 1634567902}

\* what the beacon roots contract may answer: a failed call, a malformed
\* answer, the zero value, the root the bundle names, another root
OracleReplies(data) ==
    {[success |-> FALSE, data |-> Raw(<<>>)],
     [success |-> TRUE, data |-> Raw(<<>>)],
     [success |-> TRUE, data |-> ZeroChunk],
     [success |-> TRUE, data |-> ForeignChunk],
     [success |-> TRUE, data |-> DecodeString(trimHexPrefix(data.BeaconBlockRoot)).bytes]}

InitHeader ==
    /\ \E slot \in SlotStrings, proposer \in ProposerStrings,
          parent \in ParentRootStrings, state \in StateRootStrings,
          body \in BodyRootStrings :
          hdr = [Slot |-> slot, ProposerIndex |-> proposer, ParentRoot |-> parent,
                 StateRoot |-> state, BodyRoot |-> body]
    /\ codec = NoCodec
    /\ bundle = NoBundle
    /\ chain = NoChain
    /\ AppIdle
    /\ input = <<>>
    /\ tree = [state |-> "unbuilt", err |-> FALSE, t |-> <<>>]
    /\ call = NoCall
    /\ VerifyIdle

\* var header BlockHeader; err := header.FromAPIResponse(data)
CallFromAPIResponse ==
    /\ codec.state = "none" /\ bundle.state = "none"
    /\ LET r == FromAPIResponse(ZeroBlockHeader, hdr)
       IN  codec' = [state |-> "parsed", err |-> r.err, header |-> r.b, chunks |-> <<>>]
    /\ UNCHANGED <<merkleVars, verifyVars, hdr, bundle, chain, appVars>>

\* serialized := header.SerializeForMerkleization(), on a decoded header
CallSerializeForMerkleization ==
    /\ codec.state = "parsed" /\ codec.err = ""
    /\ codec' = [codec EXCEPT !.state = "serialized",
                              !.chunks = SerializeForMerkleization(codec.header)]
    /\ UNCHANGED <<merkleVars, verifyVars, hdr, bundle, chain, appVars>>

CallGenerateHeaderProof ==
    /\ codec.state = "none" /\ bundle.state = "none"
    /\ \E fieldName \in FieldNameInputs, ts \in Timestamps :
          LET r == GenerateHeaderProof(hdr, fieldName, ts)
          IN  bundle' = [state |-> "returned", field |-> fieldName, ts |-> ts,
                         err |-> r.err, data |-> r.data]
    /\ UNCHANGED <<merkleVars, verifyVars, hdr, codec, chain, appVars>>

\* verifyFields submits the bundle of a successful GenerateHeaderProof
CallVerifyOnChain ==
    /\ bundle.state = "returned" /\ bundle.err = "" /\ chain.state = "none"
    /\ \E reply \in OracleReplies(bundle.data) :
          LET r == VerifyOnChain(reply, bundle.data)
          IN  chain' = [state |-> "returned", reply |-> reply, panic |-> r.panic,
                        err |-> r.err, called |-> r.called, asked |-> r.asked,
                        ret |-> r.ret]
    /\ UNCHANGED <<merkleVars, verifyVars, hdr, codec, bundle, appVars>>

NextHeader ==
    \/ CallFromAPIResponse
    \/ CallSerializeForMerkleization
    \/ CallGenerateHeaderProof
    \/ CallVerifyOnChain

SpecHeader == InitHeader /\ [][NextHeader]_vars

(***************************************************************************)
(* The verifier contract.  The root of a header's tree is what the beacon  *)
(* roots contract holds; a caller invokes verifyHeaderField with a field   *)
(* index, a field value and a proof of its choice, and the staticcall to   *)
(* the beacon roots contract is answered with some reply.                  *)
(***************************************************************************)
\* the chunks of two headers: five different fields, and the zero header
HeaderChunkLists ==
    {[i \in 1..5 |-> Leaf(i)], [i \in 1..5 |-> ZeroChunk]}

\* uint8 fieldIndex
ContractIndices == 0..(2 * BODY_ROOT_INDEX) \cup {MaxUint8}

\* bytes32 fieldValue: chunks and nodes of the header tree, its root, the
\* zero value and a value foreign to the tree
ContractValues(t) ==
    {ZeroChunk, ForeignChunk, t.root}
        \cup {t.chunks[j] : j \in 1..Len(t.chunks)} \cup ProofNodes(t)

\* bytes32[] merkleProof: the tree's proofs, whole, cut short, or extended
ContractProofs(t) ==
    UNION {Suffixes(p) \cup {Append(p, ZeroChunk)} : p \in GenuineProofs(t)}

\* what the beacon roots contract answers: a failed call, a malformed
\* answer, the zero value, the root of the header
BeaconRootsReplies(root) ==
    {[success |-> FALSE, data |-> Raw(<<>>)],
     [success |-> TRUE, data |-> Raw(<<>>)],
     [success |-> TRUE, data |-> ZeroChunk],
     [success |-> TRUE, data |-> root]}

InitContract ==
    /\ input \in HeaderChunkLists
    /\ tree = [state |-> "unbuilt", err |-> FALSE, t |-> <<>>]
    /\ call = NoCall
    /\ VerifyIdle
    /\ HeaderIdle
    /\ AppIdle

\* verifier.verifyHeaderField(beaconTimestamp, fieldIndex, fieldValue, merkleProof)
CallVerifyHeaderField ==
    /\ tree.state = "returned" /\ tree.t # <<>> /\ chain.state = "none"
    /\ \E reply \in BeaconRootsReplies(tree.t[1].root),
          fieldIndex \in ContractIndices,
          fieldValue \in ContractValues(tree.t[1]),
          merkleProof \in ContractProofs(tree.t[1]) :
          LET r == verifyHeaderField(reply, fieldIndex, fieldValue, merkleProof)
          IN  /\ req' = [root |-> reply.data, index |-> fieldIndex,
                         leaf |-> fieldValue, proof |-> merkleProof]
              /\ chain' = [state |-> "returned", reply |-> reply, panic |-> FALSE,
                           err |-> r.reverted, called |-> TRUE, asked |-> r.asked,
                           ret |-> r.ret]
    /\ UNCHANGED <<merkleVars, goRet, solRet, hdr, codec, bundle, appVars>>

\* the hex strings a caller may write for a raw 32-byte value: the value,
\* its first 16 bytes, the value followed by one more byte
HexForms(b) ==
    {With0x(EncodeToString(b)),
     With0x(EncodeToString(Raw(SubSeq(b.raw, 1, 16)))),
     With0x(EncodeToString(Raw(b.raw \o <<7>>)))}

\* the proof bundles handed to VerifyOnChain for the slot chunk of the
\* header: field value and first proof element in each of their hex forms,
\* or not hex at all, or shorter than the 10 characters that are logged
ExternalBundles(t) ==
    LET proof == ComputeProof(t, 0).proof
        rest == [k \in 1..(Len(proof) - 1) |-> With0x(EncodeToString(proof[k + 1]))]
    IN  {[BeaconTimestamp |-> 12,
          BeaconBlockRoot |-> With0x(EncodeToString(t.root)),
          FieldIndex |-> 0,
          FieldValue |-> value,
          MerkleProof |-> <<first>> \o rest] :
            value \in HexForms(t.chunks[1]) \cup {ShortRootString, NotHexString},
            first \in HexForms(proof[1]) \cup {NotHexString}}

\* proof.VerifyOnChain(client, contractAddress, proofData) on a bundle that
\* did not come from GenerateHeaderProof
CallVerifyOnChainExternal ==
    /\ tree.state = "returned" /\ tree.t # <<>>
    /\ bundle.state = "none" /\ chain.state = "none"
    /\ \E proofData \in ExternalBundles(tree.t[1]) :
          \E reply \in OracleReplies(proofData) :
             LET r == VerifyOnChain(reply, proofData)
             IN  /\ bundle' = [state |-> "returned", field |-> "slot",
                               ts |-> proofData.BeaconTimestamp, err |-> "",
                               data |-> proofData]
                 /\ chain' = [state |-> "returned", reply |-> reply,
                              panic |-> r.panic, err |-> r.err, called |-> r.called,
                              asked |-> r.asked, ret |-> r.ret]
    /\ UNCHANGED <<merkleVars, verifyVars, hdr, codec, appVars>>

\* uint64 slot, uint64 proposerIndex
ContractNumbers ==
    {U64Zero, Uint64OfInt(1), Uint64OfInt(2), Uint64OfInt(258), U64Max}

\* verifier.verifySlot(beaconTimestamp, slot, merkleProof)
CallVerifySlot ==
    /\ tree.state = "returned" /\ tree.t # <<>> /\ chain.state = "none"
    /\ \E reply \in BeaconRootsReplies(tree.t[1].root),
          slot \in ContractNumbers,
          merkleProof \in ContractProofs(tree.t[1]) :
          LET r == verifySlot(reply, slot, merkleProof)
          IN  /\ call' = [op |-> "verifySlot", index |-> SLOT_INDEX,
                          value |-> Raw(slot), proof |-> merkleProof,
                          err |-> r.reverted, ret |-> r.ret]
              /\ req' = [root |-> reply.data, index |-> SLOT_INDEX,
                         leaf |-> Bytes32OfUint64(slot), proof |-> merkleProof]
              /\ chain' = [state |-> "returned", reply |-> reply, panic |-> FALSE,
                           err |-> r.reverted, called |-> TRUE, asked |-> r.asked,
                           ret |-> r.ret]
    /\ UNCHANGED <<input, tree, goRet, solRet, hdr, codec, bundle, appVars>>

\* verifier.verifyProposerIndex(beaconTimestamp, proposerIndex, merkleProof)
CallVerifyProposerIndex ==
    /\ tree.state = "returned" /\ tree.t # <<>> /\ chain.state = "none"
    /\ \E reply \in BeaconRootsReplies(tree.t[1].root),
          proposerIndex \in ContractNumbers,
          merkleProof \in ContractProofs(tree.t[1]) :
          LET r == verifyProposerIndex(reply, proposerIndex, merkleProof)
          IN  /\ call' = [op |-> "verifyProposerIndex", index |-> PROPOSER_INDEX,
                          value |-> Raw(proposerIndex), proof |-> merkleProof,
                          err |-> r.reverted, ret |-> r.ret]
              /\ req' = [root |-> reply.data, index |-> PROPOSER_INDEX,
                         leaf |-> Bytes32OfUint64(proposerIndex),
                         proof |-> merkleProof]
              /\ chain' = [state |-> "returned", reply |-> reply, panic |-> FALSE,
                           err |-> r.reverted, called |-> TRUE, asked |-> r.asked,
                           ret |-> r.ret]
    /\ UNCHANGED <<input, tree, goRet, solRet, hdr, codec, bundle, appVars>>

NextContract ==
    \/ CallNewTree
    \/ CallVerifyHeaderField
    \/ CallVerifyOnChainExternal
    \/ CallVerifySlot
    \/ CallVerifyProposerIndex

SpecContract == InitContract /\ [][NextContract]_vars

(***************************************************************************)
(* package beacon: the API client.  The beacon node is                     *)
(*     [slots |-> a function from slot to what the node has there,         *)
(*      how   |-> the way the block request of a "broken" slot fails]      *)
(* A slot is "filled" (header and block served), "missing" (404),          *)
(* "broken" (header served, block request fails) or "noslot" (a header     *)
(* document without a slot).  The node is honest: the header it serves     *)
(* for slot s says slot s, and "head" is its highest served slot.          *)
(***************************************************************************)
\* HeaderData{}
ZeroHeaderData ==
    [Slot |-> EmptyStr, ProposerIndex |-> EmptyStr, ParentRoot |-> EmptyStr,
     StateRoot |-> EmptyStr, BodyRoot |-> EmptyStr, BlockRoot |-> EmptyStr,
     Timestamp |-> 0]

HeadString == Str(<<"h", "e", "a", "d">>)

NotANumber == Str(<<"n", "o", "t", "-", "a", "-", "n", "u", "m", "b", "e", "r">>)

\* the int of a uint64 below 2^31
IntOfU64(v) == v[1] + 256 * v[2] + 65536 * v[3] + 16777216 * v[4]

\* strconv.ParseInt(s, 10, 64) for s # "": (0, syntax error), (+-max, range
\* error) or (n, nil); the timestamps of the model stay below 2^31
ParseInt(s) ==
    LET signed == s.chars[1] = "+" \/ s.chars[1] = "-"
        un == ParseUint(Str(IF signed THEN Tail(s.chars) ELSE s.chars))
    IN  IF un.err \/ un.val[8] >= 128 THEN [val |-> 0, err |-> TRUE]
        ELSE [val |-> IF s.chars[1] = "-" THEN 0 - IntOfU64(un.val)
                      ELSE IntOfU64(un.val),
              err |-> FALSE]

\* the slot a request path names: <<slot>>, or <<>> when the node has none
NodeSlot(nd, slot) ==
    LET served == {x \in DOMAIN nd.slots : nd.slots[x] # "missing"}
    IN  IF slot = HeadString
        THEN IF served = {} THEN <<>>
             ELSE <<CHOOSE x \in served : \A y \in served : ~LessU64(x, y)>>
        ELSE LET x == ParseUint(slot).val
             IN  IF x \in served THEN <<x>> ELSE <<>>

\* GET /eth/v1/beacon/headers/{slot}: status and the decoded APIResponse
HeaderResponse(nd, slot) ==
    LET at == NodeSlot(nd, slot)
    IN  IF at = <<>> THEN [status |-> 404, message |-> ZeroHeaderData]
        ELSE IF nd.slots[at[1]] = "noslot"
             THEN [status |-> 200, message |-> ZeroHeaderData]
        ELSE [status |-> 200,
              message |-> [Slot |-> FormatUint(at[1]),
                           ProposerIndex |-> Str(<<"4", "2">>),
                           ParentRoot |-> With0x(EncodeToString(Raw(Repeat(1, 32)))),
                           StateRoot |-> With0x(EncodeToString(Raw(Repeat(2, 32)))),
                           BodyRoot |-> With0x(EncodeToString(Raw(Repeat(3, 32)))),
                           BlockRoot |-> With0x(EncodeToString(Raw(Repeat(4, 32)))),
                           Timestamp |-> 0]]

\* GET /eth/v2/beacon/blocks/{slot}: status, whether the body is JSON, and
\* the execution payload's timestamp string
BlockResponse(nd, slot) ==
    LET at == NodeSlot(nd, slot)
        ok == [status |-> 200, json |-> TRUE,
               timestamp |-> IF at = <<>> THEN EmptyStr
                             ELSE FormatUint(Uint64OfInt(1000 + 12 * at[1][1]))]
    IN  IF at = <<>> THEN [status |-> 404, json |-> FALSE, timestamp |-> EmptyStr]
        ELSE IF nd.slots[at[1]] # "broken" THEN ok
        ELSE IF nd.how = "status"
             THEN [status |-> 500, json |-> FALSE, timestamp |-> EmptyStr]
        ELSE IF nd.how = "json" THEN [ok EXCEPT !.json = FALSE]
        ELSE [ok EXCEPT !.timestamp = NotANumber]

\* Client.fetchBlockData / FetchBlockHeader: (HeaderData, error)
fetchBlockData(nd, slot) ==
    LET resp == HeaderResponse(nd, slot)
        headerData == [resp.message EXCEPT !.Timestamp = 0]
        blockResp == BlockResponse(nd, slot)
        timestampStr == blockResp.timestamp
        parsed == ParseInt(timestampStr)
    IN  IF resp.status # 200
        THEN [data |-> ZeroHeaderData, err |-> "API returned status code"]
        ELSE IF blockResp.status = 200 /\ ~blockResp.json
             THEN [data |-> ZeroHeaderData, err |-> "error decoding block response"]
        ELSE IF blockResp.status = 200 /\ timestampStr # EmptyStr
             THEN IF parsed.err
                  THEN [data |-> ZeroHeaderData, err |-> "error parsing timestamp"]
                  ELSE [data |-> [headerData EXCEPT !.Timestamp = parsed.val],
                        err |-> ""]
        ELSE [data |-> ZeroHeaderData, err |-> "block data not found"]

(***************************************************************************)
(* package app: Application.Run up to its call of verifyFields.  run is    *)
(*     [pc, Config, nextFilledSlotHeader, headerToVerify, err,             *)
(*      direction, slot, i, targetSlot, fetches   \* the fetchHeader frame *)
(*      done,              \* the fetchHeader calls that have returned     *)
(*      last]              \* the latest FetchBlockHeader call and result  *)
(* pc is "none" before NewApplication, "Run" before the first statement    *)
(* of Run, "fetchHeader" inside the retry loop, "verifyFields" when Run    *)
(* calls verifyFields and "returned" when Run has returned an error.  One  *)
(* loop iteration is one step.                                             *)
(***************************************************************************)
MaxRetryAttempts == 3

\* beacon.Previous, beacon.Next, beacon.Requested
Previous == "previous"

DirectionNext == "next"

Requested == "requested"

\* the slots the node of the model knows about
NodeSlots == {Uint64OfInt(0), Uint64OfInt(1), Uint64OfInt(2), U64Max}

Nodes ==
    [slots : [NodeSlots -> {"filled", "missing", "broken", "noslot"}],
     how : {"status", "json", "timestamp"}]

\* Config.Slot: unset, a slot, or not a number
ConfigSlots ==
    {EmptyStr, NotANumber} \cup {FormatUint(x) : x \in NodeSlots}

\* Config.BeaconAPI.RetryAttempts
RetryAttemptsInputs == (0 - 1)..MaxRetryAttempts

\* Application.fetchLatestHeader
fetchLatestHeader(nd) ==
    LET latest == fetchBlockData(nd, HeadString)
    IN  IF latest.err # ""
        THEN [data |-> ZeroHeaderData,
              err |-> "could not fetch latest beacon block header"]
        ELSE IF ParseUint(latest.data.Slot).err
             THEN [data |-> ZeroHeaderData, err |-> "error parsing latest slot"]
        ELSE [data |-> latest.data, err |-> ""]

\* the statements of Run after a fetchHeader call has returned (data, err)
AfterFetchHeader(r, direction, data, err) ==
    LET logged == [r EXCEPT !.done = Append(@, [direction |-> direction,
                                                 slot |-> r.slot,
                                                 fetches |-> r.fetches,
                                                 data |-> data, err |-> err])]
    IN  IF err # ""
        THEN [logged EXCEPT !.pc = "returned",
                            !.err = IF direction = Requested
                                    THEN "error fetching specified slot"
                                    ELSE "error fetching previous header"]
        ELSE IF direction = DirectionNext
             THEN [logged EXCEPT !.pc = "verifyFields",
                                 !.nextFilledSlotHeader = data]
        ELSE IF direction = Previous
             THEN [logged EXCEPT !.pc = "verifyFields", !.headerToVerify = data]
        ELSE [logged EXCEPT !.pc = "call", !.headerToVerify = data]

\* Application.fetchHeader(header, direction) up to the head of its loop
EnterFetchHeader(r, header, direction) ==
    LET parsed == ParseUint(header.Slot)
        frame == [r EXCEPT !.direction = direction, !.slot = parsed.val,
                           !.i = 1, !.targetSlot = U64Zero, !.fetches = <<>>]
    IN  IF parsed.err
        THEN AfterFetchHeader(frame, direction, ZeroHeaderData,
                              "error parsing header slot")
        ELSE [frame EXCEPT !.pc = "fetchHeader"]

\* the switch of the loop body: a break inside a case leaves the switch,
\* not the loop, so targetSlot keeps the value it had
TargetSlot(direction, slot, i, targetSlot) ==
    IF direction = Previous
    THEN IF LessU64(slot, Uint64OfInt(i)) THEN targetSlot
         ELSE SubU64(slot, Uint64OfInt(i))
    ELSE IF direction = DirectionNext THEN AddU64(slot, Uint64OfInt(i))
    ELSE slot

\* a faulty variant of the loop condition: one attempt too many
LoopContinuesOnceMore(i, maxAttempts) == i <= maxAttempts + 1

\* the loop condition of fetchHeader
LoopContinues(i, maxAttempts) == i <= maxAttempts

NewRun(slot, retryAttempts) ==
    [pc |-> "Run",
     Config |-> [Slot |-> slot, RetryAttempts |-> retryAttempts],
     nextFilledSlotHeader |-> ZeroHeaderData, headerToVerify |-> ZeroHeaderData,
     err |-> "", direction |-> "", slot |-> U64Zero, i |-> 0,
     targetSlot |-> U64Zero, fetches |-> <<>>, done |-> <<>>,
     last |-> [called |-> FALSE, slot |-> EmptyStr, data |-> ZeroHeaderData,
               err |-> ""]]

InitApp ==
    /\ input = <<>>
    /\ tree = [state |-> "unbuilt", err |-> FALSE, t |-> <<>>]
    /\ call = NoCall
    /\ VerifyIdle
    /\ HeaderIdle
    /\ AppIdle

\* NewApplication(cfg): the configuration is loaded and the client of the
\* beacon node is made
CallNewApplication ==
    /\ run = NoRun
    /\ node' \in Nodes
    /\ \E slot \in ConfigSlots, retryAttempts \in RetryAttemptsInputs :
          run' = NewRun(slot, retryAttempts)
    /\ UNCHANGED <<merkleVars, verifyVars, headerVars, vf>>

\* Run, app.go 62-64 and 73-79: the first call of a branch
RunFirstCall(r, nd) ==
    LET latest == fetchLatestHeader(nd)
        head == fetchBlockData(nd, HeadString)
        asked == [r EXCEPT !.last = [called |-> TRUE, slot |-> HeadString,
                                     data |-> head.data, err |-> head.err]]
    IN  IF r.Config.Slot # EmptyStr
        THEN EnterFetchHeader(r, [ZeroHeaderData EXCEPT !.Slot = r.Config.Slot],
                              Requested)
        ELSE IF latest.err # ""
             THEN [asked EXCEPT !.pc = "returned",
                                !.err = "error fetching latest header"]
        ELSE EnterFetchHeader([asked EXCEPT !.nextFilledSlotHeader = latest.data],
                              latest.data, Previous)

RunBegin ==
    /\ run.pc = "Run"
    /\ run' = RunFirstCall(run, node)
    /\ UNCHANGED <<merkleVars, verifyVars, headerVars, node, vf>>

\* Run, app.go 69: the second call of the branch of a configured slot
RunFetchNext ==
    /\ run.pc = "call"
    /\ run' = EnterFetchHeader(run, run.headerToVerify, DirectionNext)
    /\ UNCHANGED <<merkleVars, verifyVars, headerVars, node, vf>>

\* the body of the retry loop of fetchHeader
FetchHeaderIteration(r, nd) ==
    LET targetSlot == TargetSlot(r.direction, r.slot, r.i, r.targetSlot)
        got == fetchBlockData(nd, FormatUint(targetSlot))
        fetched == [r EXCEPT !.targetSlot = targetSlot,
                             !.fetches = Append(@, targetSlot),
                             !.last = [called |-> TRUE,
                                       slot |-> FormatUint(targetSlot),
                                       data |-> got.data, err |-> got.err]]
    IN  IF got.err = "" /\ got.data.Slot # EmptyStr
        THEN AfterFetchHeader(fetched, r.direction, got.data, "")
        ELSE [fetched EXCEPT !.i = @ + 1]

\* fetchHeader, one iteration of the retry loop
FetchHeaderAttempt ==
    /\ run.pc = "fetchHeader"
    /\ LoopContinues(run.i, run.Config.RetryAttempts)
    /\ run' = FetchHeaderIteration(run, node)
    /\ UNCHANGED <<merkleVars, verifyVars, headerVars, node, vf>>

\* fetchHeader, the statements after the loop
FetchHeaderExhausted ==
    /\ run.pc = "fetchHeader"
    /\ ~LoopContinues(run.i, run.Config.RetryAttempts)
    /\ run' = AfterFetchHeader(run, run.direction, ZeroHeaderData,
                               "could not fetch any valid beacon block header")
    /\ UNCHANGED <<merkleVars, verifyVars, headerVars, node, vf>>

NextApp ==
    \/ CallNewApplication
    \/ RunBegin
    \/ RunFetchNext \/ FetchHeaderAttempt \/ FetchHeaderExhausted

SpecApp == InitApp /\ [][NextApp]_vars

\* ENABLED <<NextApp>>_vars: the application is not yet made, or Run has
\* a next statement (every step changes pc or the loop counter i)
RunEnabled == run = NoRun \/ run.pc \in {"Run", "call", "fetchHeader"}

\* the Go runtime keeps running the one goroutine Run is in: weak fairness
\* of NextApp, WF_vars(NextApp), written out with RunEnabled for
\* ENABLED <<NextApp>>_vars
SpecAppLive == SpecApp /\ ([]<>(~RunEnabled) \/ []<><<NextApp>>_vars)

(***************************************************************************)
(* package app: Application.verifyFields.  vf is                           *)
(*     [pc, Web3Connected, fields, headerData, nextSlotTimestamp,          *)
(*      k,              \* the position of the loop in fields              *)
(*      proofResults,   \* the map, a function on the names it holds       *)
(*      log,            \* per field processed: what was called, with what *)
(*                      \* outcome                                         *)
(*      err]                                                               *)
(* pc is "loop" at the head of the loop, "returned" after a return and     *)
(* "panicked" when VerifyOnChain panicked.  One loop iteration is one step.*)
(***************************************************************************)
MaxFields == 2

\* Config.Verification.FieldsToVerify
FieldLists == SeqsUpTo({"slot", "state_root", "invalid_field"}, MaxFields)

\* the header to verify: one a node serves, and one with a root that is
\* not hex
VerifyFieldsHeaders ==
    LET served == HeaderResponse([slots |-> [x \in NodeSlots |-> "filled"],
                                  how |-> "status"],
                                 FormatUint(Uint64OfInt(1))).message
    IN  {served, [served EXCEPT !.ParentRoot = NotHexString]}

EmptyMap == [name \in {} |-> FALSE]

\* faulty variant: a field that fails ends the loop
VerifyFieldStopOnError(v, generated, verified) ==
    LET fieldName == v.fields[v.k]
        entry == [field |-> fieldName, generated |-> generated.err = "",
                  called |-> generated.err = "",
                  verified |-> generated.err = "" /\ ~verified.err,
                  ret |-> verified.ret]
        next == [v EXCEPT !.k = @ + 1, !.log = Append(@, entry)]
    IN  IF generated.err # "" \/ verified.err
        THEN [next EXCEPT !.k = Len(v.fields) + 1]
        ELSE [next EXCEPT !.proofResults =
                             [name \in DOMAIN @ \cup {fieldName} |->
                                 IF name = fieldName THEN verified.ret ELSE @[name]]]

\* the body of the loop of verifyFields for the field at position k, given
\* what GenerateHeaderProof and, after it, VerifyOnChain returned
VerifyField(v, generated, verified) ==
    LET fieldName == v.fields[v.k]
        entry == [field |-> fieldName, generated |-> generated.err = "",
                  called |-> generated.err = "",
                  verified |-> generated.err = "" /\ ~verified.err,
                  ret |-> verified.ret]
        next == [v EXCEPT !.k = @ + 1, !.log = Append(@, entry)]
    IN  IF generated.err # "" THEN next
        ELSE IF verified.panic THEN [next EXCEPT !.pc = "panicked"]
        ELSE IF verified.err THEN next
        ELSE [next EXCEPT !.proofResults =
                             [name \in DOMAIN @ \cup {fieldName} |->
                                 IF name = fieldName THEN verified.ret ELSE @[name]]]

NotVerified == [panic |-> FALSE, err |-> FALSE, called |-> FALSE, asked |-> FALSE,
                ret |-> FALSE]

InitFields ==
    /\ input = <<>>
    /\ tree = [state |-> "unbuilt", err |-> FALSE, t |-> <<>>]
    /\ call = NoCall
    /\ VerifyIdle
    /\ HeaderIdle
    /\ AppIdle

\* a.verifyFields(headerData, nextFilledSlotHeader), app.go 186-194
CallVerifyFields ==
    /\ vf = NoVerifyFields
    /\ \E web3 \in BOOLEAN, fields \in FieldLists,
          headerData \in VerifyFieldsHeaders, ts \in Timestamps :
          vf' = [pc |-> IF web3 THEN "loop" ELSE "returned",
                 Web3Connected |-> web3, fields |-> fields,
                 headerData |-> headerData, nextSlotTimestamp |-> ts,
                 k |-> 1, proofResults |-> EmptyMap, log |-> <<>>, err |-> ""]
    /\ UNCHANGED <<merkleVars, verifyVars, headerVars, node, run>>

\* one iteration of the loop over the configured fields
VerifyFieldsIteration ==
    /\ vf.pc = "loop" /\ vf.k <= Len(vf.fields)
    /\ LET generated == GenerateHeaderProof(vf.headerData, vf.fields[vf.k],
                                            vf.nextSlotTimestamp)
       IN  IF generated.err # ""
           THEN vf' = VerifyField(vf, generated, NotVerified)
           ELSE \E reply \in OracleReplies(generated.data) :
                   vf' = VerifyField(vf, generated,
                                     VerifyOnChain(reply, generated.data))
    /\ UNCHANGED <<merkleVars, verifyVars, headerVars, node, run>>

\* return proofResults, nil
VerifyFieldsReturn ==
    /\ vf.pc = "loop" /\ vf.k > Len(vf.fields)
    /\ vf' = [vf EXCEPT !.pc = "returned"]
    /\ UNCHANGED <<merkleVars, verifyVars, headerVars, node, run>>

NextFields == CallVerifyFields \/ VerifyFieldsIteration \/ VerifyFieldsReturn

SpecFields == InitFields /\ [][NextFields]_vars

(***************************************************************************)
(* Reference definitions the properties are stated with.                   *)
(***************************************************************************)
\* the smallest power of two >= n
SmallestPowerOfTwo(n) ==
    CHOOSE p \in {2 ^ k : k \in 0..10} :
        p >= n /\ \A q \in {2 ^ k : k \in 0..10} : q >= n => p <= q

Log2(p) == CHOOSE k \in 0..10 : 2 ^ k = p

RECURSIVE PairwiseRoot(_)
\* the root of a list whose length is a power of two: the digest of the
\* roots of its two halves
PairwiseRoot(layer) ==
    IF Len(layer) = 1 THEN layer[1]
    ELSE LET half == Len(layer) \div 2
         IN  Sha256(PairwiseRoot(SubSeq(layer, 1, half)),
                    PairwiseRoot(SubSeq(layer, half + 1, Len(layer))))

ReferenceRoot(chunks) ==
    LET n == Len(chunks)
        p == SmallestPowerOfTwo(n)
    IN  IF n = 0 THEN Raw(Repeat(0, 32))
        ELSE IF n = 1 THEN chunks[1]
        ELSE PairwiseRoot(chunks \o [i \in 1..(p - n) |-> Raw(Repeat(0, 32))])

\* bit i of a non-negative index
BitOf(index, i) == IF index % (2 ^ (i + 1)) >= 2 ^ i THEN 1 ELSE 0

RECURSIVE ReferenceReplay(_, _, _)
\* the replay of section 4.3, element i combined according to bit i of index
ReferenceReplay(leaf, proof, index) ==
    IF proof = <<>> THEN leaf
    ELSE LET i == Len(proof) - 1
             current == ReferenceReplay(leaf, SubSeq(proof, 1, i), index)
             sibling == proof[i + 1]
         IN  IF BitOf(index, i) = 0
             THEN Sha256(current, sibling)
             ELSE Sha256(sibling, current)

Built == tree.state = "returned" /\ tree.t # <<>>

(***************************************************************************)
(* Properties.                                                             *)
(***************************************************************************)
\* C1: round trip.  For a tree over N >= 1 chunks and 0 <= i < N,
\* VerifyProof(i, chunks[i], ComputeProof(i)) returns true.
C1_RoundTrip ==
    (/\ Built
     /\ call.op = "VerifyProof"
     /\ call.index >= 0 /\ call.index < Len(tree.t[1].chunks)
     /\ call.value = tree.t[1].chunks[call.index + 1]
     /\ call.proof = ComputeProof(tree.t[1], call.index).proof)
    => call.ret = TRUE

\* a round trip for the last chunk of a 5-chunk tree (padded to 8 leaves)
C1_Witness ==
    /\ Built
    /\ Len(tree.t[1].chunks) = 5
    /\ call.op = "VerifyProof" /\ call.index = 4
    /\ call.value = tree.t[1].chunks[5]
    /\ call.proof = ComputeProof(tree.t[1], 4).proof
    /\ Len(call.proof) = 3
    /\ call.ret = TRUE

\* C2: dual-implementation agreement.  On the same root, index in 0..255,
\* leaf and proof, Tree.VerifyProof and verifySSZMerkleProof return the same
\* boolean.
C2_Agreement ==
    (goRet # <<>> /\ solRet # <<>>) => goRet[1] = solRet[1]

\* both verifiers accepted a 9-element proof at an odd position
C2_Witness ==
    /\ goRet = <<TRUE>> /\ solRet = <<TRUE>>
    /\ Len(req.proof) = 9 /\ req.index = 255

\* C4: VerifyProof replays the proof as specified: element i is combined as
\* H(current ++ sibling) when bit i of index is 0 and H(sibling ++ current)
\* when it is 1, and the result is (final current = root); an empty proof
\* gives (leaf = root).
C4_Replay ==
    goRet # <<>> =>
        /\ goRet[1] = (ReferenceReplay(req.leaf, req.proof, req.index) = tree.t[1].root)
        /\ req.proof = <<>> => goRet[1] = (req.leaf = tree.t[1].root)

\* an accepted 2-element proof at position 2 (bit 0 clear, bit 1 set)
C4_Witness ==
    /\ goRet = <<TRUE>>
    /\ Len(req.proof) = 2 /\ req.index = 2
    /\ req.proof[1] # req.leaf

\* C5: the root NewTree computes is the reference merkleization: 32 zero
\* bytes for N = 0, the chunk itself for N = 1, otherwise the pairwise
\* reduction of the list padded with zero chunks to the next power of two.
C5_Root ==
    Built => tree.t[1].root = ReferenceRoot(input)

\* a 5-chunk tree with a non-zero last chunk has been built
C5_Witness ==
    /\ Built
    /\ Len(input) = 5 /\ input[5] = Leaf(5)
    /\ tree.t[1].root.kids # <<>>

\* C6: a proof returned by ComputeProof has 0 elements when N <= 1 and
\* log2(P) elements otherwise, P the smallest power of two >= N, whatever
\* the index.
C6_ProofLength ==
    (Built /\ call.op = "ComputeProof" /\ ~call.err) =>
        LET n == Len(tree.t[1].chunks)
        IN  Len(call.proof) = IF n <= 1 THEN 0 ELSE Log2(SmallestPowerOfTwo(n))

\* a proof of 2 elements was returned for a 4-chunk tree
C6_Witness ==
    /\ Built /\ Len(tree.t[1].chunks) = 4
    /\ call.op = "ComputeProof" /\ ~call.err
    /\ Len(call.proof) = 2

\* C7: ComputeProof fails, returning no proof, exactly when index < 0 or
\* index >= N (the number of real chunks).
C7_IndexRange ==
    (Built /\ call.op = "ComputeProof") =>
        LET n == Len(tree.t[1].chunks)
        IN  /\ call.err = (call.index < 0 \/ call.index >= n)
            /\ call.err => call.proof = <<>>

\* ComputeProof failed for a padded position of a 5-chunk tree
C7_Witness ==
    /\ Built /\ Len(tree.t[1].chunks) = 5
    /\ call.op = "ComputeProof" /\ call.index = 6
    /\ call.err

\* C8: NewTree returns an error and no tree exactly when some chunk is not
\* 32 bytes long; every list of 32-byte chunks, the empty one included,
\* gives a tree.
C8_ChunkLength ==
    tree.state = "returned" =>
        /\ tree.err = (\E i \in 1..Len(input) : ByteLen(input[i]) # 32)
        /\ tree.err => tree.t = <<>>
        /\ ~tree.err => tree.t # <<>>

\* NewTree refused a list whose second chunk has 16 bytes
C8_Witness ==
    /\ tree.state = "returned" /\ tree.err /\ tree.t = <<>>
    /\ Len(input) = 3 /\ ByteLen(input[2]) = 16
    /\ ByteLen(input[1]) = 32 /\ ByteLen(input[3]) = 32

\* the root a bundle names, as bytes
BundleRoot(data) == DecodeString(trimHexPrefix(data.BeaconBlockRoot)).bytes

\* C3: end-to-end acceptance.  For a bundle GenerateHeaderProof produced for
\* one of the 5 canonical fields of an accepted header: if the oracle answers
\* the bundle's BeaconBlockRoot for the bundle's timestamp, verifyHeaderField
\* called with the arguments VerifyOnChain packs returns true.
C3_EndToEnd ==
    (/\ chain.state = "returned"
     /\ bundle.state = "returned" /\ bundle.err = ""
     /\ chain.reply = [success |-> TRUE, data |-> BundleRoot(bundle.data)])
    => (chain.called /\ ~chain.err /\ ~chain.panic /\ chain.ret = TRUE)

\* the contract accepted the state_root bundle of a header whose slot is
\* 2^64 - 1 and whose parent root was given in upper case without prefix
C3_Witness ==
    /\ chain.state = "returned" /\ chain.ret = TRUE /\ chain.called
    /\ bundle.field = "state_root" /\ bundle.data.FieldIndex = 3
    /\ Len(bundle.data.MerkleProof) = 3
    /\ hdr.ParentRoot = UpperRootString
    /\ Len(hdr.Slot.chars) = 20
    /\ chain.reply = [success |-> TRUE, data |-> BundleRoot(bundle.data)]

\* a root string that hex-decodes, but not to 32 bytes
DecodesToWrongLength(s) ==
    /\ s # EmptyStr
    /\ LET d == DecodeString(trimHexPrefix(s))
       IN  ~d.err /\ ByteLen(d.bytes) # 32

NumericErrors == {"parsing slot", "parsing proposer_index"}

\* C9: the codec fails with an error naming the field whenever a supplied
\* root hex-decodes to other than 32 bytes, so FromAPIResponse followed by
\* SerializeForMerkleization never yields a chunk whose length is not 32.
C9_RootLength ==
    /\ (codec.state # "none" /\ codec.err \notin NumericErrors) =>
          /\ DecodesToWrongLength(hdr.ParentRoot) => codec.err = "decoding parent_root"
          /\ (DecodesToWrongLength(hdr.StateRoot) /\ codec.err # "decoding parent_root")
                => codec.err = "decoding state_root"
          /\ (DecodesToWrongLength(hdr.BodyRoot)
                /\ codec.err \notin {"decoding parent_root", "decoding state_root"})
                => codec.err = "decoding body_root"
    /\ codec.state = "serialized" =>
          \A k \in 1..Len(codec.chunks) : ByteLen(codec.chunks[k]) = 32

MaxUint64Digits ==
    <<1, 8, 4, 4, 6, 7, 4, 4, 0, 7, 3, 7, 0, 9, 5, 5, 1, 6, 1, 5>>

RECURSIVE StripZeros(_)
StripZeros(d) == IF d # <<>> /\ d[1] = 0 THEN StripZeros(Tail(d)) ELSE d

RECURSIVE DigitsLeq(_, _)
\* a <= b for two digit sequences of the same length
DigitsLeq(a, b) ==
    IF a = <<>> THEN TRUE
    ELSE IF a[1] # b[1] THEN a[1] < b[1]
    ELSE DigitsLeq(Tail(a), Tail(b))

\* s is the decimal form of an unsigned 64-bit integer
IsUint64Decimal(s) ==
    /\ s.chars # <<>>
    /\ \A k \in 1..Len(s.chars) : IsDecimalChar(s.chars[k])
    /\ LET d == StripZeros([k \in 1..Len(s.chars) |-> DecimalVal(s.chars[k])])
       IN  Len(d) < 20 \/ (Len(d) = 20 /\ DigitsLeq(d, MaxUint64Digits))

\* C10: for every slot or proposer_index string that is not the decimal
\* form of an unsigned 64-bit integer, the empty string included,
\* FromAPIResponse and GenerateHeaderProof return an error.
C10_NumericRejected ==
    LET malformed == ~IsUint64Decimal(hdr.Slot) \/ ~IsUint64Decimal(hdr.ProposerIndex)
    IN  /\ (codec.state # "none" /\ malformed) => codec.err # ""
        /\ (bundle.state = "returned" /\ malformed) => bundle.err # ""

\* the 32-byte chunk of an unsigned 64-bit value: its 8 bytes, least
\* significant first, then 24 zero bytes
U64Chunk(v) == Raw(v \o Repeat(0, 24))

\* C11: SerializeForMerkleization returns exactly 5 chunks in the canonical
\* order: chunk 0 encodes slot, chunk 1 proposer_index, chunks 2, 3 and 4 are
\* parent_root, state_root and body_root copied verbatim; FieldNames and the
\* contract's index constants give the same positions.
C11_ChunkOrder ==
    /\ codec.state = "serialized" =>
          /\ Len(codec.chunks) = 5
          /\ codec.chunks[SLOT_INDEX + 1] = U64Chunk(codec.header.Slot)
          /\ codec.chunks[PROPOSER_INDEX + 1] = U64Chunk(codec.header.ProposerIndex)
          /\ codec.chunks[PARENT_ROOT_INDEX + 1] = codec.header.ParentRoot
          /\ codec.chunks[STATE_ROOT_INDEX + 1] = codec.header.StateRoot
          /\ codec.chunks[BODY_ROOT_INDEX + 1] = codec.header.BodyRoot
    /\ DOMAIN FieldNames =
          {"slot", "proposer_index", "parent_root", "state_root", "body_root"}
    /\ FieldNames["slot"] = 0 /\ SLOT_INDEX = 0
    /\ FieldNames["proposer_index"] = 1 /\ PROPOSER_INDEX = 1
    /\ FieldNames["parent_root"] = 2 /\ PARENT_ROOT_INDEX = 2
    /\ FieldNames["state_root"] = 3 /\ STATE_ROOT_INDEX = 3
    /\ FieldNames["body_root"] = 4 /\ BODY_ROOT_INDEX = 4

\* a header with five pairwise different fields has been serialized
C11_Witness ==
    /\ codec.state = "serialized"
    /\ hdr.Slot = Str(<<"1", "2", "3", "4", "5", "6">>)
    /\ hdr.ProposerIndex = Str(<<"4", "2">>)
    /\ hdr.ParentRoot = RootString(1)
    /\ hdr.StateRoot = RootString(2)
    /\ hdr.BodyRoot = RootString(3)
    /\ codec.chunks[1].raw[1] = 64 /\ codec.chunks[2].raw[1] = 42
    /\ codec.chunks[3] = Raw(Repeat(1, 32))
    /\ codec.chunks[5] = Raw(Repeat(3, 32))

\* a decimal string short enough for its value to be below 2^31
IsSmallDecimal(s) ==
    /\ s.chars # <<>> /\ Len(s.chars) <= 9
    /\ \A k \in 1..Len(s.chars) : IsDecimalChar(s.chars[k])

RECURSIVE IntOfDigits(_)
IntOfDigits(chars) ==
    IF chars = <<>> THEN 0
    ELSE 10 * IntOfDigits(SubSeq(chars, 1, Len(chars) - 1))
            + DecimalVal(chars[Len(chars)])

\* (v >> 8k) mod 256 for 0 <= v < 2^31
ShiftedByte(v, k) == IF k < 4 THEN (v \div (256 ^ k)) % 256 ELSE 0

\* the chunk c encodes the unsigned 64-bit value v, read from the string s
EncodesLittleEndian(c, v, s) ==
    /\ ByteLen(c) = 32
    /\ \A k \in 8..31 : c.raw[k + 1] = 0
    /\ SubSeq(c.raw, 1, 8) = v
    /\ IsSmallDecimal(s) =>
          \A k \in 0..7 : c.raw[k + 1] = ShiftedByte(IntOfDigits(s.chars), k)
    /\ s.chars = [k \in 1..20 |-> DecimalTable[MaxUint64Digits[k] + 1]] =>
          \A k \in 0..7 : c.raw[k + 1] = 255

\* C12: the chunk of slot and of proposer_index is 32 bytes long, byte k
\* (0 <= k < 8) is (v >> 8k) mod 256, bytes 8..31 are zero, and the first 8
\* bytes read little-endian give back v.
C12_LittleEndian ==
    codec.state = "serialized" =>
        /\ EncodesLittleEndian(codec.chunks[1], codec.header.Slot, hdr.Slot)
        /\ EncodesLittleEndian(codec.chunks[2], codec.header.ProposerIndex,
                               hdr.ProposerIndex)

\* slot 123456 = 0x01E240 was serialized as 40 E2 01 00 ...
C12_Witness ==
    /\ codec.state = "serialized"
    /\ hdr.Slot = Str(<<"1", "2", "3", "4", "5", "6">>)
    /\ SubSeq(codec.chunks[1].raw, 1, 4) = <<64, 226, 1, 0>>
    /\ hdr.ProposerIndex = Str(<<"4", "2">>)

\* the root field decoded from the string s is r: 32 zero bytes for the
\* empty string, the decoded bytes otherwise
RootDecodedAs(s, r) ==
    IF s = EmptyStr THEN r = Raw(Repeat(0, 32))
    ELSE r = DecodeString(trimHexPrefix(s)).bytes

\* the numeric field decoded from the string s is v
NumberDecodedAs(s, v) ==
    /\ IsSmallDecimal(s) =>
          v = [k \in 1..8 |-> ShiftedByte(IntOfDigits(s.chars), k - 1)]
    /\ s # EmptyStr => v = ParseUint(s).val

\* C13: a root supplied as the empty string is no error and is set to 32
\* zero bytes, the other fields being as decoded from the input.
C13_EmptyRoots ==
    codec.state # "none" =>
        /\ hdr.ParentRoot = EmptyStr => codec.err # "decoding parent_root"
        /\ hdr.StateRoot = EmptyStr => codec.err # "decoding state_root"
        /\ hdr.BodyRoot = EmptyStr => codec.err # "decoding body_root"
        /\ (/\ hdr.ParentRoot = EmptyStr /\ hdr.StateRoot = EmptyStr
            /\ hdr.BodyRoot = EmptyStr
            /\ IsUint64Decimal(hdr.Slot) /\ IsUint64Decimal(hdr.ProposerIndex))
           => codec.err = ""
        /\ codec.err = "" =>
              /\ RootDecodedAs(hdr.ParentRoot, codec.header.ParentRoot)
              /\ RootDecodedAs(hdr.StateRoot, codec.header.StateRoot)
              /\ RootDecodedAs(hdr.BodyRoot, codec.header.BodyRoot)
              /\ NumberDecodedAs(hdr.Slot, codec.header.Slot)
              /\ NumberDecodedAs(hdr.ProposerIndex, codec.header.ProposerIndex)

\* a header with empty parent and body roots was decoded: both are 32 zero
\* bytes, the state root and the numbers are those of the input
C13_Witness ==
    /\ codec.state = "parsed" /\ codec.err = ""
    /\ hdr.ParentRoot = EmptyStr /\ hdr.BodyRoot = EmptyStr
    /\ hdr.StateRoot = RootString(2)
    /\ hdr.Slot = Str(<<"1", "2", "3", "4", "5", "6">>)
    /\ codec.header.ParentRoot = Raw(Repeat(0, 32))
    /\ codec.header.BodyRoot = Raw(Repeat(0, 32))
    /\ codec.header.StateRoot = Raw(Repeat(2, 32))
    /\ SubSeq(codec.header.Slot, 1, 3) = <<64, 226, 1>>

CanonicalNames == {"slot", "proposer_index", "parent_root", "state_root", "body_root"}

\* a root string the codec is specified to accept: empty, or the hex form
\* of 32 bytes
IsRootString(s) ==
    \/ s = EmptyStr
    \/ LET d == DecodeString(trimHexPrefix(s))
       IN  ~d.err /\ ByteLen(d.bytes) = 32

WellFormedHeader(data) ==
    /\ IsUint64Decimal(data.Slot) /\ IsUint64Decimal(data.ProposerIndex)
    /\ IsRootString(data.ParentRoot) /\ IsRootString(data.StateRoot)
    /\ IsRootString(data.BodyRoot)

\* C14: GenerateHeaderProof returns an error and an empty bundle for every
\* field name other than the five canonical ones, and no error for each of
\* the five on a well-formed header.
C14_UnknownField ==
    bundle.state = "returned" =>
        /\ bundle.field \notin CanonicalNames =>
              bundle.err # "" /\ bundle.data = ZeroData
        /\ (bundle.field \in CanonicalNames /\ WellFormedHeader(hdr)) =>
              bundle.err = ""

\* the name "Slot" was refused on a well-formed header
C14_Witness ==
    /\ bundle.state = "returned" /\ bundle.field = "Slot"
    /\ bundle.err = "unknown field name" /\ bundle.data = ZeroData
    /\ WellFormedHeader(hdr) /\ hdr.ParentRoot = RootString(1)

CanonicalIndex(name) ==
    CASE name = "slot" -> 0
      [] name = "proposer_index" -> 1
      [] name = "parent_root" -> 2
      [] name = "state_root" -> 3
      [] name = "body_root" -> 4

\* the bytes a root string stands for
RootBytes(s) ==
    IF s = EmptyStr THEN Raw(Repeat(0, 32)) ELSE DecodeString(trimHexPrefix(s)).bytes

\* the chunk list of a well-formed header
ExpectedChunks(data) ==
    <<U64Chunk(ParseUint(data.Slot).val), U64Chunk(ParseUint(data.ProposerIndex).val),
      RootBytes(data.ParentRoot), RootBytes(data.StateRoot), RootBytes(data.BodyRoot)>>

\* s is "0x" followed by 64 hex digits
Is0xHex64(s) ==
    /\ Len(s.chars) >= 2 /\ s.chars[1] = "0" /\ s.chars[2] = "x"
    /\ StrLen(s) = 66
    /\ \A k \in 3..Len(s.chars) : IsHexChar(s.chars[k])

\* the bytes a "0x" hex string of the bundle stands for
HexBytes(s) == DecodeString(trimHexPrefix(s)).bytes

\* C15: for a well-formed header, a canonical field name and a timestamp,
\* the bundle has BeaconTimestamp = the timestamp, FieldIndex = the canonical
\* index of the name (within 0..4), FieldValue = the 32-byte chunk at that
\* index, BeaconBlockRoot = the root of the tree over the 5 chunks, and a
\* MerkleProof of exactly 3 elements, each "0x" and 64 hex digits.
C15_BundleContents ==
    (/\ bundle.state = "returned" /\ bundle.field \in CanonicalNames
     /\ WellFormedHeader(hdr)) =>
        LET data == bundle.data
            chunks == ExpectedChunks(hdr)
        IN  /\ bundle.err = ""
            /\ data.BeaconTimestamp = bundle.ts
            /\ data.FieldIndex = CanonicalIndex(bundle.field)
            /\ data.FieldIndex \in 0..4
            /\ Is0xHex64(data.FieldValue)
            /\ HexBytes(data.FieldValue) = chunks[data.FieldIndex + 1]
            /\ ByteLen(HexBytes(data.FieldValue)) = 32
            /\ Is0xHex64(data.BeaconBlockRoot)
            /\ HexBytes(data.BeaconBlockRoot) = ReferenceRoot(chunks)
            /\ Len(data.MerkleProof) = 3
            /\ \A k \in 1..3 : Is0xHex64(data.MerkleProof[k])

\* the bundle for slot 2^64 - 1 at timestamp 1634567902: the field value is
\* ff x 8 then zeros, the first proof element is the proposer chunk
C15_Witness ==
    /\ bundle.state = "returned" /\ bundle.err = "" /\ bundle.field = "slot"
    /\ WellFormedHeader(hdr) /\ Len(hdr.Slot.chars) = 20
    /\ hdr.ProposerIndex = Str(<<"4", "2">>)
    /\ bundle.data.BeaconTimestamp = 1634567902
    /\ bundle.data.FieldIndex = 0
    /\ SubSeq(bundle.data.FieldValue.chars, 1, 20)
          = <<"0", "x", "f", "f", "f", "f", "f", "f", "f", "f", "f", "f",
              "f", "f", "f", "f", "f", "f", "0", "0">>
    /\ Len(bundle.data.MerkleProof) = 3
    /\ SubSeq(bundle.data.MerkleProof[1].chars, 1, 4) = <<"0", "x", "2", "a">>

\* C16: verifyHeaderField never returns true when the beacon roots contract
\* answers the zero value, whatever the field index, field value and proof
\* (an empty proof with a zero field value included).
C16_ZeroOracle ==
    (chain.state = "returned" /\ chain.reply = [success |-> TRUE, data |-> ZeroChunk])
        => ~chain.ret

\* C17: verifyHeaderField reverts for every fieldIndex > 4 without asking
\* the beacon roots contract or replaying the proof, and for fieldIndex in
\* 0..4 it asks the contract and returns the result of the replay.
C17_FieldIndexRange ==
    (chain.state = "returned" /\ bundle.state = "none") =>
        /\ req.index > 4 => (chain.err /\ ~chain.asked /\ ~chain.ret)
        /\ req.index <= 4 =>
              /\ chain.asked
              /\ chain.err = (~chain.reply.success \/ ByteLen(chain.reply.data) # 32)
              /\ ~chain.err =>
                    chain.ret = (ReferenceReplay(req.leaf, req.proof, req.index)
                                    = chain.reply.data)

\* index 8 was refused although the oracle holds the root and the proof of
\* chunk 0 replays to it at index 8
C17_Witness ==
    /\ chain.state = "returned" /\ bundle.state = "none"
    /\ chain.err /\ ~chain.asked
    /\ req.index = 8
    /\ tree.t # <<>> /\ chain.reply = [success |-> TRUE, data |-> tree.t[1].root]
    /\ req.leaf = Leaf(1) /\ req.leaf = tree.t[1].chunks[1]
    /\ req.proof = ComputeProof(tree.t[1], 0).proof
    /\ ReferenceReplay(req.leaf, req.proof, req.index) = tree.t[1].root

\* C18: a proof shorter than the tree depth is never accepted: for a tree
\* with N >= 2 chunks, every index and every value, VerifyProof with fewer
\* than log2(P) proof elements returns false.
C18_ShortProof ==
    (/\ Built /\ call.op = "VerifyProof"
     /\ Len(tree.t[1].chunks) >= 2
     /\ Len(call.proof) < Log2(SmallestPowerOfTwo(Len(tree.t[1].chunks))))
    => call.ret = FALSE

\* C19: VerifyProof never returns true for an index < 0 or >= N.
C19_VerifyIndexRange ==
    (/\ Built /\ call.op = "VerifyProof"
     /\ (call.index < 0 \/ call.index >= Len(tree.t[1].chunks)))
    => call.ret = FALSE

\* the trees of the chunk lists that differ from chunks in one position
OtherTrees(chunks) ==
    {NewTree([chunks EXCEPT ![k] = ForeignChunk]).tree[1] : k \in 1..Len(chunks)}

\* C20: tamper sensitivity, the hash being collision-free.  Against the
\* genuine (root, index, leaf, proof) of a tree, a different 32-byte leaf,
\* a proof with one element replaced by a different value, or a different
\* root makes verification return false.
C20_Tamper ==
    (/\ Built /\ call.op = "VerifyProof"
     /\ call.index >= 0 /\ call.index < Len(tree.t[1].chunks)) =>
        LET t == tree.t[1]
            leaf == t.chunks[call.index + 1]
            genuine == ComputeProof(t, call.index).proof
        IN  /\ (/\ call.proof = genuine
                /\ call.value # leaf /\ ByteLen(call.value) = 32)
               => call.ret = FALSE
            /\ (/\ call.value = leaf
                /\ Len(call.proof) = Len(genuine)
                /\ Cardinality({k \in 1..Len(genuine) : call.proof[k] # genuine[k]}) = 1)
               => call.ret = FALSE
            /\ (call.value = leaf /\ call.proof = genuine) =>
                  /\ call.ret = TRUE
                  /\ \A other \in OtherTrees(t.chunks) :
                        /\ other.root # t.root
                        /\ ~VerifyProof(other, call.index, call.value, call.proof)
                        /\ ~verifySSZMerkleProof(other.root, call.index, call.value,
                                                 call.proof)

\* the proof of the last chunk of a 5-chunk tree, its second element
\* replaced, was refused
C20_Witness ==
    /\ Built /\ Len(tree.t[1].chunks) = 5
    /\ call.op = "VerifyProof" /\ call.index = 4
    /\ call.value = tree.t[1].chunks[5] /\ call.value = Leaf(5)
    /\ call.proof = [ComputeProof(tree.t[1], 4).proof EXCEPT ![2] = ForeignChunk]
    /\ call.ret = FALSE

PairwiseDistinct(chunks) ==
    \A a, b \in 1..Len(chunks) : a # b => chunks[a] # chunks[b]

\* C21: index binding, the hash being collision-free.  For a tree of
\* pairwise distinct chunks, the proof computed for index j together with
\* chunks[j] does not verify under any other index i # j with 0 <= i < P.
C21_IndexBinding ==
    (/\ Built /\ call.op = "VerifyProof"
     /\ PairwiseDistinct(tree.t[1].chunks)
     /\ call.index >= 0
     /\ call.index < SmallestPowerOfTwo(Len(tree.t[1].chunks))
     /\ \E j \in 0..(Len(tree.t[1].chunks) - 1) :
           /\ j # call.index
           /\ call.value = tree.t[1].chunks[j + 1]
           /\ call.proof = ComputeProof(tree.t[1], j).proof)
    => call.ret = FALSE

\* a hex string of a bundle that does not stand for exactly 32 bytes
NotThirtyTwoBytes(s) ==
    LET d == DecodeString(trimHexPrefix(s))
    IN  d.err \/ ByteLen(d.bytes) # 32

\* C22: VerifyOnChain returns an error, without calling the contract,
\* whenever the bundle's FieldValue or any MerkleProof element does not
\* decode to exactly 32 bytes.
C22_SizesRejected ==
    (/\ chain.state = "returned" /\ bundle.state = "returned"
     /\ \/ NotThirtyTwoBytes(bundle.data.FieldValue)
        \/ \E k \in 1..Len(bundle.data.MerkleProof) :
              NotThirtyTwoBytes(bundle.data.MerkleProof[k]))
    => (chain.err /\ ~chain.called /\ ~chain.panic /\ ~chain.ret)

\* the block request for a slot fails: a status other than 200, a body
\* that is not JSON, or a timestamp that is not a number
BlockRequestFails(nd, slot) ==
    LET blockResp == BlockResponse(nd, slot)
    IN  \/ blockResp.status # 200
        \/ ~blockResp.json
        \/ ParseInt(blockResp.timestamp).err

\* C23: when the header request succeeds and the block request fails,
\* FetchBlockHeader returns no error and a header whose Timestamp is a
\* fallback other than zero.
C23_TimestampFallback ==
    (/\ run # NoRun
     /\ run.last.called
     /\ HeaderResponse(node, run.last.slot).status = 200
     /\ BlockRequestFails(node, run.last.slot))
    => (run.last.err = "" /\ run.last.data.Timestamp # 0)

\* the fetchHeader calls of the run: those that returned, and the one in
\* its loop
FetchHeaderCalls ==
    IF run = NoRun THEN {}
    ELSE {run.done[k] : k \in DOMAIN run.done} \cup
         IF run.pc = "fetchHeader"
         THEN {[direction |-> run.direction, slot |-> run.slot,
                fetches |-> run.fetches, data |-> ZeroHeaderData,
                err |-> "running"]}
         ELSE {}

\* C24: for direction Previous, fetchHeader never fetches a slot greater
\* than or equal to the given header's slot and never underflows: attempt i
\* fetches slot - i only while i <= slot, and no fetch is made after that
\* (none at all for slot 0).
C24_PreviousBelow ==
    \A c \in FetchHeaderCalls :
       c.direction = Previous =>
          \A k \in DOMAIN c.fetches :
             /\ ~LessU64(c.slot, Uint64OfInt(k))
             /\ c.fetches[k] = SubU64(c.slot, Uint64OfInt(k))
             /\ LessU64(c.fetches[k], c.slot)

\* C25: in every run that reaches verifyFields, the slot of
\* nextFilledSlotHeader is strictly greater than the slot of headerToVerify.
C25_NextAfterVerified ==
    run.pc = "verifyFields" =>
       LessU64(ParseUint(run.headerToVerify.Slot).val,
               ParseUint(run.nextFilledSlotHeader.Slot).val)

\* a fetch that fetchHeader takes for a failure
AttemptFails(slot) ==
    LET got == fetchBlockData(node, FormatUint(slot))
    IN  got.err # "" \/ got.data.Slot = EmptyStr

\* what C26 says of one fetchHeader call: at most RetryAttempts fetches;
\* a header is returned only with a slot, it is the header of the last
\* fetch, and every fetch before it failed; when RetryAttempts <= 0 or every
\* fetch failed the call makes no further fetch and returns an error with
\* an empty header
FetchHeaderBounded(c) ==
    /\ Len(c.fetches) <= run.Config.RetryAttempts \/ c.fetches = <<>>
    /\ \A k \in 1..(Len(c.fetches) - 1) : AttemptFails(c.fetches[k])
    /\ c.err = "" =>
          /\ c.fetches # <<>>
          /\ c.data.Slot # EmptyStr
          /\ c.data = fetchBlockData(node, FormatUint(c.fetches[Len(c.fetches)])).data
          /\ ~AttemptFails(c.fetches[Len(c.fetches)])
    /\ (c.err # "" /\ c.err # "running") =>
          /\ c.data = ZeroHeaderData
          /\ \A k \in DOMAIN c.fetches : AttemptFails(c.fetches[k])
          /\ c.err = "could not fetch any valid beacon block header" =>
                Len(c.fetches) = IF run.Config.RetryAttempts <= 0 THEN 0
                                 ELSE run.Config.RetryAttempts

\* C26: fetchHeader always terminates, after at most RetryAttempts fetch
\* calls; it returns the header of the first attempt that succeeds with a
\* non-empty slot and fetches nothing after it, and it returns an error,
\* never an empty header with a nil error, when every attempt fails or when
\* RetryAttempts <= 0.
C26_FetchHeaderTerminates ==
    /\ [](\A c \in FetchHeaderCalls : FetchHeaderBounded(c))
    /\ (run.pc = "fetchHeader") ~> (run.pc # "fetchHeader")

\* a call for the next filled slot that returned the header of its second
\* fetch
C26_Witness ==
    /\ run # NoRun
    /\ run.Config.RetryAttempts = MaxRetryAttempts
    /\ \E k \in DOMAIN run.done :
          \/ run.done[k].err = "" /\ Len(run.done[k].fetches) = 2
             /\ run.done[k].direction = DirectionNext

\* C27: for every uint64 number, the 32-byte value verifySlot and
\* verifyProposerIndex pass to verifyHeaderField is the codec's chunk of the
\* number (little-endian in the first 8 bytes, 24 zero bytes), so the proof
\* generated for the slot or proposer_index chunk of a header is accepted
\* for the number the chunk encodes.
C27_NumberChunks ==
    (chain.state = "returned" /\ call.op \in {"verifySlot", "verifyProposerIndex"})
    => /\ req.leaf = writeUint64LittleEndian(ZeroChunk, call.value.raw)
       /\ (/\ chain.reply = [success |-> TRUE, data |-> tree.t[1].root]
           /\ tree.t[1].root # ZeroChunk
           /\ tree.t[1].chunks[call.index + 1] =
                  writeUint64LittleEndian(ZeroChunk, call.value.raw)
           /\ call.proof = ComputeProof(tree.t[1], call.index).proof)
          => chain.ret

\* the leaves of the padded tree: the chunks, then zero chunks up to the
\* smallest power of two
PaddedLeaves(chunks) ==
    chunks \o [i \in 1..(SmallestPowerOfTwo(Len(chunks)) - Len(chunks)) |-> ZeroChunk]

\* the root of the subtree of 2^k leaves that is the sibling, at level k,
\* of the node above leaf index
SiblingSubtree(chunks, index, k) ==
    LET position == index \div (2 ^ k)
        sibling == IF position % 2 = 0 THEN position + 1 ELSE position - 1
    IN  PairwiseRoot(SubSeq(PaddedLeaves(chunks),
                            sibling * (2 ^ k) + 1, (sibling + 1) * (2 ^ k)))

\* C28: each element of the proof ComputeProof(index) returns is the
\* sibling at that level of the padded tree: element 0 is the leaf at
\* position index XOR 1, the zero chunk when that position is >= N, and
\* element k is the hash of the sibling subtree of the node at position
\* index / 2^k of level k; there is one element for each level below the
\* root.
C28_ProofSiblings ==
    (Built /\ call.op = "ComputeProof" /\ ~call.err) =>
       LET chunks == tree.t[1].chunks
           other == IF call.index % 2 = 0 THEN call.index + 1 ELSE call.index - 1
       IN  /\ 2 ^ Len(call.proof) = SmallestPowerOfTwo(Len(chunks))
           /\ call.proof # <<>> =>
                 call.proof[1] = IF other >= Len(chunks) THEN ZeroChunk
                                 ELSE chunks[other + 1]
           /\ \A k \in 0..(Len(call.proof) - 1) :
                 call.proof[k + 1] = SiblingSubtree(chunks, call.index, k)

\* for 4 different chunks the proof for index 0 is [c1, H(c2 ++ c3)]
C28_Witness ==
    /\ Built /\ call.op = "ComputeProof" /\ ~call.err
    /\ tree.t[1].chunks = [i \in 1..4 |-> Leaf(i)]
    /\ call.index = 0
    /\ call.proof = <<Leaf(2), Sha256(Leaf(3), Leaf(4))>>

\* the fields of the log that succeeded in both steps
Succeeded == {j \in DOMAIN vf.log : vf.log[j].generated /\ vf.log[j].verified}

\* C29: verifyFields isolates failures per field.  Without an Ethereum
\* connection it returns an empty map and no error, generates no proof and
\* makes no on-chain call.  Otherwise every configured field is processed
\* in turn whatever happened to the fields before it, a name is in the
\* result map exactly when its proof generation and its on-chain call both
\* succeeded, with the result of the call, and the return carries no error.
C29_FieldIsolation ==
    vf # NoVerifyFields =>
       /\ vf.pc # "panicked" /\ vf.err = ""
       /\ ~vf.Web3Connected =>
             vf.pc = "returned" /\ vf.proofResults = EmptyMap /\ vf.log = <<>>
       /\ Len(vf.log) = vf.k - 1
       /\ \A j \in DOMAIN vf.log :
             /\ vf.log[j].field = vf.fields[j]
             /\ vf.log[j].called = vf.log[j].generated
       /\ DOMAIN vf.proofResults = {vf.log[j].field : j \in Succeeded}
       /\ \A name \in DOMAIN vf.proofResults :
             \E j \in Succeeded :
                /\ vf.log[j].field = name /\ vf.log[j].ret = vf.proofResults[name]
                /\ \A i \in Succeeded : vf.log[i].field = name => i <= j
       /\ (vf.pc = "returned" /\ vf.Web3Connected) => Len(vf.log) = Len(vf.fields)

\* the proof generation of the first field failed and the second field is
\* in the map
C29_Witness ==
    /\ vf # NoVerifyFields /\ vf.pc = "returned" /\ vf.Web3Connected
    /\ Len(vf.fields) = 2
    /\ ~vf.log[1].generated
    /\ vf.proofResults = [name \in {vf.fields[2]} |-> TRUE]

\* the tree as NewTree built it from the input
AsConstructed == NewTree(input).tree[1]

====
